---------------------------- MODULE Spec2Model ----------------------------
(***************************************************************************)
(* Model of the notcluely scheduling backend (src/backend/server.py):      *)
(* users, bookings and conflict records kept in SQLite tables, the failed  *)
(* logins kept in memory, and the request handlers register, login,        *)
(* create_booking, delete_booking, resolve_conflict and the listings.      *)
(*                                                                         *)
(* Text values (handles, passwords, titles) are sequences of character     *)
(* codes.  A timestamp is the pair (hour, UTC suffix) of an ISO string     *)
(* "2030-01-01THH:00:00<suffix>"; its characters (for string comparison)   *)
(* and its instant (for datetime comparison) are both computed from it.    *)
(* Ids stand for uuid4 values: every insert takes a fresh one.             *)
(***************************************************************************)
EXTENDS Integers, Sequences, FiniteSets, TLC

VARIABLES
    users,          \* rows of table users
    bookings,       \* rows of table bookings
    conflicts,      \* rows of table conflicts
    now,            \* the server clock, in minutes
    nextUserId,     \* fresh ids for the three tables
    nextBookingId,
    nextConflictId,
    last,           \* the latest exchange: the operation, the caller it
                    \* was authenticated as, the id it named and the owner
                    \* of the row found under it, and the response
    reqs,           \* the requests in flight, one slot per worker
    LOGIN_ATTEMPTS, \* per handle, the times of the failed logins kept
    failed          \* history: per handle, the latest logins answered 401,
                    \* each with its time and whether a successful login
                    \* followed it

vars == <<users, bookings, conflicts, now, nextUserId, nextBookingId,
          nextConflictId, last, reqs, LOGIN_ATTEMPTS, failed>>

-----------------------------------------------------------------------------
(* Bounds of the model *)

MaxHour == 2
MaxNow == 1
MaxUsers == 2
MaxBookings == 3
MaxFormBookings == 2
MaxWorkers == 2

-----------------------------------------------------------------------------
(* Characters and strings *)

\* Code point of a character (Python compares str by code point).
Ord(c) ==
    CASE c = " " -> 32
      [] c = "!" -> 33
      [] c = "+" -> 43
      [] c = "-" -> 45
      [] c = "0" -> 48
      [] c = "1" -> 49
      [] c = "2" -> 50
      [] c = "3" -> 51
      [] c = "4" -> 52
      [] c = "5" -> 53
      [] c = "6" -> 54
      [] c = "7" -> 55
      [] c = "8" -> 56
      [] c = "9" -> 57
      [] c = ":" -> 58
      [] c = "A" -> 65
      [] c = "B" -> 66
      [] c = "R" -> 82
      [] c = "Z" -> 90
      [] c = "_" -> 95
      [] c = "a" -> 97
      [] c = "b" -> 98
      [] c = "c" -> 99
      [] c = "d" -> 100
      [] c = "e" -> 101
      [] c = "i" -> 105
      [] c = "k" -> 107
      [] c = "l" -> 108
      [] c = "m" -> 109
      [] c = "n" -> 110
      [] c = "o" -> 111
      [] c = "r" -> 114
      [] c = "s" -> 115
      [] c = "t" -> 116
      [] c = "u" -> 117
      [] c = "v" -> 118

Str(cs) == [i \in 1..Len(cs) |-> Ord(cs[i])]

IsSpace(c) == c = 32
IsUpper(c) == c >= 65 /\ c <= 90
IsLower(c) == c >= 97 /\ c <= 122
IsDigit(c) == c >= 48 /\ c <= 57
IsAlnum(c) == IsUpper(c) \/ IsLower(c) \/ IsDigit(c)

\* str.lower()
Lower(s) == [i \in 1..Len(s) |-> IF IsUpper(s[i]) THEN s[i] + 32 ELSE s[i]]

RECURSIVE LStrip(_)
LStrip(s) == IF s # <<>> /\ IsSpace(Head(s)) THEN LStrip(Tail(s)) ELSE s

RECURSIVE RStrip(_)
RStrip(s) ==
    IF s # <<>> /\ IsSpace(s[Len(s)]) THEN RStrip(SubSeq(s, 1, Len(s) - 1))
    ELSE s

\* str.strip()
Strip(s) == RStrip(LStrip(s))

\* str.replace(old, '') for a single character old
RemoveChar(s, c) == SelectSeq(s, LAMBDA x : x # c)

\* str.isalnum(): non-empty and every character alphanumeric
IsAlnumStr(s) == s # <<>> /\ \A i \in 1..Len(s) : IsAlnum(s[i])

\* Python's str ordering: a < b
RECURSIVE StrLess(_, _)
StrLess(a, b) ==
    IF b = <<>> THEN FALSE
    ELSE IF a = <<>> THEN TRUE
    ELSE IF Head(a) # Head(b) THEN Head(a) < Head(b)
    ELSE StrLess(Tail(a), Tail(b))


-----------------------------------------------------------------------------
(* Timestamps *)

\* The UTC designators a client may write; "" is a timestamp without one.
Suffixes == {"Z", "+00:00", "+01:00"}
UtcSuffixes == {"Z"}

TimeStrs(sfx) == [hh : 0..MaxHour, suffix : sfx]

SuffixChars(sfx) ==
    CASE sfx = "Z" -> Str(<<"Z">>)
      [] sfx = "+00:00" -> Str(<<"+", "0", "0", ":", "0", "0">>)
      [] sfx = "+01:00" -> Str(<<"+", "0", "1", ":", "0", "0">>)
      [] sfx = "" -> <<>>

Digit(d) == 48 + d

\* The characters of the ISO string from the hour on; every string of the
\* model shares the date before them.
TimeChars(ts) ==
    <<Digit(ts.hh \div 10), Digit(ts.hh % 10)>>
        \o Str(<<":", "0", "0", ":", "0", "0">>) \o SuffixChars(ts.suffix)

\* s.replace('Z', '+00:00')
ReplaceZ(ts) == IF ts.suffix = "Z" THEN [ts EXCEPT !.suffix = "+00:00"] ELSE ts

SuffixOffset(sfx) ==
    CASE sfx = "+00:00" -> 0
      [] sfx = "+01:00" -> 1

\* datetime.fromisoformat: an aware datetime (an instant, in hours) when the
\* string carries an offset, a naive one otherwise.
FromIsoFormat(ts) ==
    IF ts.suffix = "" THEN [aware |-> FALSE, t |-> 60 * ts.hh]
    ELSE [aware |-> TRUE, t |-> 60 * (ts.hh - SuffixOffset(ts.suffix))]

ParseTime(ts) == FromIsoFormat(ReplaceZ(ts))

\* Ordering of the raw strings, as max() and min() of two str apply it.
TimeStrLess(a, b) == StrLess(TimeChars(a), TimeChars(b))

\* max(a, b) and min(a, b) of two timestamp strings; the first on a tie
PyMax(a, b) == IF TimeStrLess(a, b) THEN b ELSE a
PyMin(a, b) == IF TimeStrLess(b, a) THEN b ELSE a

-----------------------------------------------------------------------------
(* Tables *)

Rutvik == Str(<<"r", "u", "t", "v", "i", "k">>)
Alice == Str(<<"a", "l", "i", "c", "e">>)
Bob == Str(<<"b", "o", "b">>)

ValidTimezones == {"UTC", "Asia/Kolkata"}

StrongPassword == Str(<<"A", "a", "1", "A", "a", "1", "A", "a">>)

\* pwd_context.hash: a bcrypt hash of the password.
get_password_hash(password) == [bcrypt |-> password]

\* pwd_context.verify
verify_password(plain_password, hashed_password) ==
    hashed_password = get_password_hash(plain_password)

UserRow(id, username, password_hash, tz, is_admin) ==
    [id |-> id, username |-> username, password_hash |-> password_hash,
     timezone |-> tz, is_admin |-> is_admin]

\* Mutant: the row is stored under the first user.
BookingRowFirstUser(id, user, data) ==
    [id |-> id, user_id |-> 1, user_name |-> Rutvik,
     title |-> data.title, start_time |-> data.start_time,
     end_time |-> data.end_time, user_timezone |-> data.user_timezone]

BookingRow(id, user, data) ==
    [id |-> id, user_id |-> user.id, user_name |-> user.username,
     title |-> data.title, start_time |-> data.start_time,
     end_time |-> data.end_time, user_timezone |-> data.user_timezone]

\* Mutant: both owners of a record are the caller.
ConflictRowCallerTwice(id, existing, booking_id, user, data) ==
    [id |-> id, booking1_id |-> existing.id, booking2_id |-> booking_id,
     user1_id |-> user.id, user2_id |-> user.id,
     user1_name |-> user.username, user2_name |-> user.username,
     conflict_start |->
         PyMax(data.start_time, existing.start_time),
     conflict_end |-> PyMin(data.end_time, existing.end_time),
     resolved |-> FALSE]

\* One row of table conflicts for the stored booking existing and the new
\* booking (id booking_id, owner user, request data).
ConflictRow(id, existing, booking_id, user, data) ==
    [id |-> id, booking1_id |-> existing.id, booking2_id |-> booking_id,
     user1_id |-> existing.user_id, user2_id |-> user.id,
     user1_name |-> existing.user_name, user2_name |-> user.username,
     conflict_start |->
         PyMax(data.start_time, existing.start_time),
     conflict_end |-> PyMin(data.end_time, existing.end_time),
     resolved |-> FALSE]

Workers == 1..MaxWorkers

\* A worker that is serving no request.
Idle == [pc |-> "idle"]

NoExchange ==
    [op |-> "none", user |-> 0, id |-> 0, owner |-> 0, status |-> 0,
     detail |-> ""]

\* The handles that clients try to log in with, as login normalises them:
\* the keys of LOGIN_ATTEMPTS (a key that is missing and a key with an empty
\* list are not told apart).
Handles == {Rutvik, Alice, Bob}

\* The users table after rutvik and alice have registered.
RegisteredUsers ==
    {UserRow(1, Rutvik, get_password_hash(StrongPassword), "UTC", TRUE),
     UserRow(2, Alice, get_password_hash(StrongPassword), "UTC", FALSE)}

\* The server starts on a database file that holds the registered users and
\* no booking.
Init ==
    /\ users = RegisteredUsers
    /\ bookings = {}
    /\ conflicts = {}
    /\ now = 0
    /\ nextUserId = 3
    /\ nextBookingId = 1
    /\ nextConflictId = 1
    /\ last = NoExchange
    /\ reqs = [w \in Workers |-> Idle]
    /\ LOGIN_ATTEMPTS = [username \in Handles |-> <<>>]
    /\ failed = [username \in Handles |-> <<>>]

\* An HTTP response: the status code and, for an HTTPException, its detail.
Response(status, detail) == [status |-> status, detail |-> detail]

Ok == Response(200, "")

\* What the framework answers when a handler raises anything else.
ServerError == Response(500, "Internal Server Error")

\* The exchange that ends with response r: user is the id of current_user
\* (0 when there is none), id the id in the path or of the row created, and
\* owner the user_id of the row the handler read (0 when it read none).
Respond(op, user, id, owner, r) ==
    last' = [op |-> op, user |-> user, id |-> id, owner |-> owner,
             status |-> r.status, detail |-> r.detail]

-----------------------------------------------------------------------------
(* Authentication *)

\* A bearer token: 0 is a string that does not decode; any other value is a
\* signed token whose subject is that user id.
BadToken == 0

\* No row of users.
NoUser == [id |-> 0]

credentials_exception ==
    Response(401, "Your session expired. Please log in again.")

\* Mutant: the subject of a token that decodes is taken for a user without
\* looking it up.
get_current_user_trusting(token) ==
    IF token = BadToken THEN NoUser
    ELSE IF \E u \in users : u.id = token
         THEN CHOOSE u \in users : u.id = token
         ELSE [id |-> token, username |-> <<>>, password_hash |-> <<>>,
               timezone |-> "UTC", is_admin |-> FALSE]

\* get_current_user: the users row of the token's subject; NoUser stands for
\* raising credentials_exception.
get_current_user(token) ==
    IF token = BadToken THEN NoUser
    ELSE IF \E u \in users : u.id = token
         THEN CHOOSE u \in users : u.id = token
         ELSE NoUser

-----------------------------------------------------------------------------
(* GET /auth/me *)

\* The handler returns the row get_current_user found and changes nothing.
get_me(token) ==
    LET current_user == get_current_user(token)
    IN  /\ Respond("get_me", current_user.id, 0, 0,
                   IF current_user = NoUser THEN credentials_exception
                   ELSE Ok)
        /\ UNCHANGED <<users, bookings, conflicts, now, nextUserId,
                       nextBookingId, nextConflictId, reqs, LOGIN_ATTEMPTS,
                       failed>>

-----------------------------------------------------------------------------
(* PUT /users/timezone *)

\* UPDATE users SET timezone = ? WHERE id = ?: the label is stored as it
\* comes, without a look into pytz.all_timezones.
UpdateTimezone(user, timezone) == [user EXCEPT !.timezone = timezone]

update_user_timezone(token, timezone) ==
    LET current_user == get_current_user(token)
        rows == {u \in users : u.id = current_user.id}
    IN  /\ Respond("update_user_timezone", current_user.id, 0, 0,
                   IF current_user = NoUser THEN credentials_exception
                   ELSE IF rows = {} THEN Response(404, "User not found")
                   ELSE Ok)
        /\ users' = (users \ rows) \cup
               {UpdateTimezone(u, timezone) : u \in rows}
        /\ UNCHANGED <<bookings, conflicts, now, nextUserId, nextBookingId,
                       nextConflictId, reqs, LOGIN_ATTEMPTS, failed>>

-----------------------------------------------------------------------------
(* POST /auth/register *)

\* Mutant: the handle is stripped but not lowered.
NormalizeStripOnly(raw) == Strip(raw)

\* user_data.username.strip().lower()
Normalize(raw) == Lower(Strip(raw))

\* Mutant: one of the three kinds of character is enough.
PasswordComplexAny(pw) ==
    \/ \E i \in 1..Len(pw) : IsUpper(pw[i])
    \/ \E i \in 1..Len(pw) : IsLower(pw[i])
    \/ \E i \in 1..Len(pw) : IsDigit(pw[i])

\* has_upper and has_lower and has_digit
PasswordComplex(pw) ==
    /\ \E i \in 1..Len(pw) : IsUpper(pw[i])
    /\ \E i \in 1..Len(pw) : IsLower(pw[i])
    /\ \E i \in 1..Len(pw) : IsDigit(pw[i])

\* Mutant: every handle that begins with rutvik is an admin's.
IsAdminNamePrefix(username) ==
    Len(username) >= Len(Rutvik)
        /\ SubSeq(username, 1, Len(Rutvik)) = Rutvik

\* is_admin = username == "rutvik"
IsAdminName(username) == username = Rutvik

RegisterResponse(user_data) ==
    LET username == Normalize(user_data.username)
        pw == user_data.password
        tz == IF user_data.timezone = "" THEN "UTC" ELSE user_data.timezone
    IN  IF Len(username) < 3
        THEN Response(400, "Username must be at least 3 characters")
        ELSE IF ~IsAlnumStr(RemoveChar(username, Ord("_")))
        THEN Response(400,
                 "Username can only contain letters, numbers, and underscores")
        ELSE IF Len(pw) < 8
        THEN Response(400, "Password must be at least 8 characters")
        ELSE IF ~PasswordComplex(pw)
        THEN Response(400,
                 "Password must contain uppercase, lowercase, and digits")
        ELSE IF \E u \in users : u.username = username
        THEN Response(400, "Username already exists")
        ELSE IF tz \notin ValidTimezones
        THEN Response(400, "Invalid timezone")
        ELSE Ok

register(user_data) ==
    LET username == Normalize(user_data.username)
        tz == IF user_data.timezone = "" THEN "UTC" ELSE user_data.timezone
        is_admin == IsAdminName(username)
        r == RegisterResponse(user_data)
    IN  /\ Respond("register", 0, IF r.status = 200 THEN nextUserId ELSE 0,
                   0, r)
        /\ IF r.status = 200
           THEN /\ users' = users \cup
                       {UserRow(nextUserId, username,
                                get_password_hash(user_data.password),
                                tz, is_admin)}
                /\ nextUserId' = nextUserId + 1
           ELSE UNCHANGED <<users, nextUserId>>
        /\ UNCHANGED <<bookings, conflicts, now, nextBookingId,
                       nextConflictId, reqs, LOGIN_ATTEMPTS, failed>>

-----------------------------------------------------------------------------
(* POST /auth/login *)

MAX_LOGIN_ATTEMPTS == 5
LOCK_TIME_MINUTES == 15

\* Mutant: one list for all handles.
RecentAttemptsOfAll(username) ==
    SelectSeq(LOGIN_ATTEMPTS[Rutvik] \o LOGIN_ATTEMPTS[Alice]
                  \o LOGIN_ATTEMPTS[Bob],
              LAMBDA ts : now - ts < LOCK_TIME_MINUTES)

\* The list check_rate_limit leaves under username: the attempts younger
\* than the lock window.
RecentAttempts(username) ==
    SelectSeq(LOGIN_ATTEMPTS[username],
              LAMBDA ts : now - ts < LOCK_TIME_MINUTES)

\* Mutant: a handle is locked only once more than MAX_LOGIN_ATTEMPTS
\* attempts are kept.
check_rate_limit_more(username) ==
    Len(RecentAttempts(username)) <= MAX_LOGIN_ATTEMPTS

\* What check_rate_limit returns.
check_rate_limit(username) ==
    Len(RecentAttempts(username)) < MAX_LOGIN_ATTEMPTS

TooManyAttempts ==
    Response(429,
        "Too many login attempts. Please try again in 15 minutes.")

InvalidCredentials == Response(401, "Invalid username or password")

\* Mutant: a login refused for the rate limit is recorded as well.
LoginOutcomeRecordsLocked(rows, user_data) ==
    LET username == Normalize(user_data.username)
        kept == RecentAttempts(username)
        found == {u \in rows : u.username = username}
    IN  IF ~check_rate_limit(username)
        THEN [response |-> TooManyAttempts, attempts |-> Append(kept, now),
              user |-> NoUser]
        ELSE IF found = {}
        THEN [response |-> InvalidCredentials,
              attempts |-> Append(kept, now), user |-> NoUser]
        ELSE LET user == CHOOSE u \in found : TRUE
             IN  IF ~verify_password(user_data.password,
                                     user.password_hash)
                 THEN [response |-> InvalidCredentials,
                       attempts |-> Append(kept, now), user |-> NoUser]
                 ELSE [response |-> Ok, attempts |-> <<>>, user |-> user]

\* Mutant: a successful login leaves the recorded failures in place.
LoginOutcomeKeepsAttempts(rows, user_data) ==
    LET username == Normalize(user_data.username)
        kept == RecentAttempts(username)
        found == {u \in rows : u.username = username}
    IN  IF ~check_rate_limit(username)
        THEN [response |-> TooManyAttempts, attempts |-> kept,
              user |-> NoUser]
        ELSE IF found = {}
        THEN [response |-> InvalidCredentials,
              attempts |-> Append(kept, now), user |-> NoUser]
        ELSE LET user == CHOOSE u \in found : TRUE
             IN  IF ~verify_password(user_data.password,
                                     user.password_hash)
                 THEN [response |-> InvalidCredentials,
                       attempts |-> Append(kept, now), user |-> NoUser]
                 ELSE [response |-> Ok, attempts |-> kept, user |-> user]

\* Mutant: a failed login is recorded only when the handle is registered.
LoginOutcomeKnownOnly(rows, user_data) ==
    LET username == Normalize(user_data.username)
        kept == RecentAttempts(username)
        found == {u \in rows : u.username = username}
    IN  IF ~check_rate_limit(username)
        THEN [response |-> TooManyAttempts, attempts |-> kept,
              user |-> NoUser]
        ELSE IF found = {}
        THEN [response |-> InvalidCredentials, attempts |-> kept,
              user |-> NoUser]
        ELSE LET user == CHOOSE u \in found : TRUE
             IN  IF ~verify_password(user_data.password,
                                     user.password_hash)
                 THEN [response |-> InvalidCredentials,
                       attempts |-> Append(kept, now), user |-> NoUser]
                 ELSE [response |-> Ok, attempts |-> <<>>, user |-> user]

\* What login answers when the users table holds rows, the list it leaves
\* in LOGIN_ATTEMPTS under the handle, and the row it logs in.
LoginOutcome(rows, user_data) ==
    LET username == Normalize(user_data.username)
        kept == RecentAttempts(username)
        found == {u \in rows : u.username = username}
    IN  IF ~check_rate_limit(username)
        THEN [response |-> TooManyAttempts, attempts |-> kept,
              user |-> NoUser]
        ELSE IF found = {}
        THEN [response |-> InvalidCredentials,
              attempts |-> Append(kept, now), user |-> NoUser]
        ELSE LET user == CHOOSE u \in found : TRUE
             IN  IF ~verify_password(user_data.password,
                                     user.password_hash)
                 THEN [response |-> InvalidCredentials,
                       attempts |-> Append(kept, now), user |-> NoUser]
                 ELSE [response |-> Ok, attempts |-> <<>>, user |-> user]

\* The history of a handle after a login answered with response: a 401 is
\* added with its time, a 200 marks all that came before it; only the
\* latest MAX_LOGIN_ATTEMPTS are kept.
Remembered(history, response) ==
    IF response.status = 401
    THEN LET all == Append(history, [at |-> now, cleared |-> FALSE])
         IN  IF Len(all) > MAX_LOGIN_ATTEMPTS THEN Tail(all) ELSE all
    ELSE IF response.status = 200
    THEN [i \in 1..Len(history) |-> [history[i] EXCEPT !.cleared = TRUE]]
    ELSE history

\* UPDATE users SET is_admin = ? WHERE id = ?, run when the stored flag
\* differs from the one computed from the handle.
UpdateAdmin(user, is_admin) ==
    IF user # NoUser /\ user.is_admin # is_admin
    THEN {IF u.id = user.id THEN [u EXCEPT !.is_admin = is_admin] ELSE u :
             u \in users}
    ELSE users

login(user_data) ==
    LET username == Normalize(user_data.username)
        o == LoginOutcome(users, user_data)
    IN  /\ Respond("login", 0, o.user.id, 0, o.response)
        /\ LOGIN_ATTEMPTS' =
               [LOGIN_ATTEMPTS EXCEPT ![username] = o.attempts]
        /\ failed' = [failed EXCEPT ![username] =
                          Remembered(failed[username], o.response)]
        /\ users' = UpdateAdmin(o.user, IsAdminName(username))
        /\ UNCHANGED <<bookings, conflicts, now, nextUserId, nextBookingId,
                       nextConflictId, reqs>>

-----------------------------------------------------------------------------
(* POST /bookings *)

\* Mutant: the clock is compared with a one-hour grace.
StartInPastGrace(start_dt) == start_dt.t < now - 60

\* start_dt < now
StartInPast(start_dt) == start_dt.t < now

\* Mutant: a booking that ends when it starts passes.
EmptyRangeStrict(start_dt, end_dt) == start_dt.t > end_dt.t

\* start_dt >= end_dt
EmptyRange(start_dt, end_dt) == start_dt.t >= end_dt.t

\* Mutant: a request whose label is not the caller's stored timezone is
\* refused.
CreateResponseLabelChecked(current_user, booking_data) ==
    LET title == Strip(booking_data.title)
        start_dt == ParseTime(booking_data.start_time)
        end_dt == ParseTime(booking_data.end_time)
    IN  IF current_user = NoUser THEN credentials_exception
        ELSE IF title = <<>>
        THEN Response(400, "Booking title cannot be empty")
        ELSE IF Len(title) > 255
        THEN Response(400, "Booking title too long (max 255 characters)")
        ELSE IF booking_data.user_timezone # current_user.timezone
        THEN Response(400, "Invalid timezone")
        ELSE IF ~start_dt.aware THEN ServerError
        ELSE IF StartInPast(start_dt)
        THEN Response(400, "Cannot create bookings in the past")
        ELSE IF ~end_dt.aware THEN ServerError
        ELSE IF EmptyRange(start_dt, end_dt)
        THEN Response(400, "Start time must be before end time")
        ELSE Ok

\* What create_booking answers before it touches the bookings table: a 400
\* for a validation error, a 500 for the TypeError that comparing a naive
\* datetime with an aware one raises, Ok when it goes on.
CreateResponse(current_user, booking_data) ==
    LET title == Strip(booking_data.title)
        start_dt == ParseTime(booking_data.start_time)
        end_dt == ParseTime(booking_data.end_time)
    IN  IF current_user = NoUser THEN credentials_exception
        ELSE IF title = <<>>
        THEN Response(400, "Booking title cannot be empty")
        ELSE IF Len(title) > 255
        THEN Response(400, "Booking title too long (max 255 characters)")
        ELSE IF ~start_dt.aware THEN ServerError
        ELSE IF StartInPast(start_dt)
        THEN Response(400, "Cannot create bookings in the past")
        ELSE IF ~end_dt.aware THEN ServerError
        ELSE IF EmptyRange(start_dt, end_dt)
        THEN Response(400, "Start time must be before end time")
        ELSE Ok

\* Mutant: intervals that only touch count as overlapping.
OverlapsInclusive(booking_data, existing) ==
    LET start_dt == ParseTime(booking_data.start_time)
        end_dt == ParseTime(booking_data.end_time)
        existing_start == ParseTime(existing.start_time)
        existing_end == ParseTime(existing.end_time)
    IN  start_dt.t <= existing_end.t /\ end_dt.t >= existing_start.t

\* Mutant: start is compared with start and end with end, so an overlap is
\* seen only when the new booking strictly contains the existing one.
OverlapsContains(booking_data, existing) ==
    LET start_dt == ParseTime(booking_data.start_time)
        end_dt == ParseTime(booking_data.end_time)
        existing_start == ParseTime(existing.start_time)
        existing_end == ParseTime(existing.end_time)
    IN  start_dt.t < existing_start.t /\ end_dt.t > existing_end.t

\* Mutant: an overlap is seen only when the new booking starts inside the
\* existing one.
OverlapsStartInside(booking_data, existing) ==
    LET start_dt == ParseTime(booking_data.start_time)
        existing_start == ParseTime(existing.start_time)
        existing_end == ParseTime(existing.end_time)
    IN  existing_start.t <= start_dt.t /\ start_dt.t < existing_end.t

\* The overlap test of the scan loop.
Overlaps(booking_data, existing) ==
    LET start_dt == ParseTime(booking_data.start_time)
        end_dt == ParseTime(booking_data.end_time)
        existing_start == ParseTime(existing.start_time)
        existing_end == ParseTime(existing.end_time)
    IN  start_dt.t < existing_end.t /\ end_dt.t > existing_start.t

\* Rows in the order SELECT returns them (the order of insertion).
RECURSIVE SelectAll(_)
SelectAll(rows) ==
    IF rows = {} THEN <<>>
    ELSE LET first == CHOOSE r \in rows : \A q \in rows : r.id <= q.id
         IN  <<first>> \o SelectAll(rows \ {first})

\* The list named conflicts that the scan loop builds.
ScanConflicts(existing_bookings, booking_data) ==
    SelectSeq(SelectAll(existing_bookings),
              LAMBDA existing : Overlaps(booking_data, existing))

\* The rows the second loop inserts, one for each scanned booking.
ConflictRows(found, booking_id, current_user, booking_data) ==
    {ConflictRow(nextConflictId + i - 1, found[i], booking_id, current_user,
                 booking_data) : i \in 1..Len(found)}

\* INSERT INTO bookings and the first commit.
InsertBooking(booking_id, current_user, booking_data) ==
    /\ bookings' = bookings \cup
           {BookingRow(booking_id, current_user, booking_data)}
    /\ nextBookingId' = nextBookingId + 1

\* Mutant: the bookings are scanned again when the records are written.
InsertConflictsRescan(found, booking_id, current_user, booking_data) ==
    LET again == ScanConflicts({b \in bookings : b.id # booking_id},
                               booking_data)
    IN  /\ conflicts' = conflicts \cup
               ConflictRows(again, booking_id, current_user, booking_data)
        /\ nextConflictId' = nextConflictId + Len(again)

\* Mutant: the insertion also reopens every stored record.
InsertConflictsReopen(found, booking_id, current_user, booking_data) ==
    /\ conflicts' = {[c EXCEPT !.resolved = FALSE] : c \in conflicts} \cup
           ConflictRows(found, booking_id, current_user, booking_data)
    /\ nextConflictId' = nextConflictId + Len(found)

\* The INSERTs INTO conflicts and the second commit.
InsertConflicts(found, booking_id, current_user, booking_data) ==
    /\ conflicts' = conflicts \cup
           ConflictRows(found, booking_id, current_user, booking_data)
    /\ nextConflictId' = nextConflictId + Len(found)

\* Mutant: the scan leaves out the caller's own bookings.
create_booking_others_only(token, booking_data) ==
    LET current_user == get_current_user(token)
        r == CreateResponse(current_user, booking_data)
        found == ScanConflicts({b \in bookings : b.user_id # current_user.id},
                               booking_data)
    IN  /\ Respond("create_booking", current_user.id,
                   IF r.status = 200 THEN nextBookingId ELSE 0, 0, r)
        /\ IF r.status = 200
           THEN /\ InsertBooking(nextBookingId, current_user, booking_data)
                /\ InsertConflicts(found, nextBookingId, current_user,
                                   booking_data)
           ELSE UNCHANGED <<bookings, conflicts, nextBookingId,
                            nextConflictId>>
        /\ UNCHANGED <<users, now, nextUserId, reqs, LOGIN_ATTEMPTS, failed>>

create_booking(token, booking_data) ==
    LET current_user == get_current_user(token)
        r == CreateResponse(current_user, booking_data)
        found == ScanConflicts(bookings, booking_data)
    IN  /\ Respond("create_booking", current_user.id,
                   IF r.status = 200 THEN nextBookingId ELSE 0, 0, r)
        /\ IF r.status = 200
           THEN /\ InsertBooking(nextBookingId, current_user, booking_data)
                /\ InsertConflicts(found, nextBookingId, current_user,
                                   booking_data)
           ELSE UNCHANGED <<bookings, conflicts, nextBookingId,
                            nextConflictId>>
        /\ UNCHANGED <<users, now, nextUserId, reqs, LOGIN_ATTEMPTS, failed>>

-----------------------------------------------------------------------------
(* DELETE /bookings/{booking_id} *)

\* Mutant: no ownership check.
DeleteResponseNoOwnerCheck(current_user, booking_id) ==
    IF current_user = NoUser THEN credentials_exception
    ELSE IF ~\E b \in bookings : b.id = booking_id
    THEN Response(404, "Booking not found")
    ELSE Ok

\* Mutant: the admin override is missing.
DeleteResponseOwnerOnly(current_user, booking_id) ==
    IF current_user = NoUser THEN credentials_exception
    ELSE IF ~\E b \in bookings : b.id = booking_id
    THEN Response(404, "Booking not found")
    ELSE LET booking == CHOOSE b \in bookings : b.id = booking_id
         IN  IF booking.user_id # current_user.id
             THEN Response(403,
                      "You do not have permission to delete this booking")
             ELSE Ok

\* Mutant: the permission is checked before the row is known to exist.
DeleteResponseOwnerFirst(current_user, booking_id) ==
    IF current_user = NoUser THEN credentials_exception
    ELSE IF ~current_user.is_admin
            /\ ~\E b \in bookings :
                   b.id = booking_id /\ b.user_id = current_user.id
    THEN Response(403, "You do not have permission to delete this booking")
    ELSE IF ~\E b \in bookings : b.id = booking_id
    THEN Response(404, "Booking not found")
    ELSE Ok

DeleteResponse(current_user, booking_id) ==
    IF current_user = NoUser THEN credentials_exception
    ELSE IF ~\E b \in bookings : b.id = booking_id
    THEN Response(404, "Booking not found")
    ELSE LET booking == CHOOSE b \in bookings : b.id = booking_id
         IN  IF booking.user_id # current_user.id /\ ~current_user.is_admin
             THEN Response(403,
                      "You do not have permission to delete this booking")
             ELSE Ok

\* user_id of the row delete_booking selects; 0 when it selects none.
OwnerOf(current_user, booking_id) ==
    IF current_user # NoUser /\ \E b \in bookings : b.id = booking_id
    THEN (CHOOSE b \in bookings : b.id = booking_id).user_id
    ELSE 0

\* Mutant: only the bookings row is deleted.
DeleteRowsNoCascade(booking_id) ==
    /\ bookings' = {b \in bookings : b.id # booking_id}
    /\ conflicts' = conflicts

\* Mutant: the cascade forgets booking2_id.
DeleteRowsBooking1Only(booking_id) ==
    /\ bookings' = {b \in bookings : b.id # booking_id}
    /\ conflicts' = {c \in conflicts : c.booking1_id # booking_id}

\* The two DELETE statements and the commit.
DeleteRows(booking_id) ==
    /\ bookings' = {b \in bookings : b.id # booking_id}
    /\ conflicts' = {c \in conflicts :
                        ~(c.booking1_id = booking_id
                            \/ c.booking2_id = booking_id)}

delete_booking(token, booking_id) ==
    LET current_user == get_current_user(token)
        r == DeleteResponse(current_user, booking_id)
    IN  /\ Respond("delete_booking", current_user.id, booking_id,
                   OwnerOf(current_user, booking_id), r)
        /\ IF r.status = 200
           THEN DeleteRows(booking_id)
           ELSE UNCHANGED <<bookings, conflicts>>
        /\ UNCHANGED <<users, now, nextUserId, nextBookingId, nextConflictId,
                       reqs, LOGIN_ATTEMPTS, failed>>

-----------------------------------------------------------------------------
(* PUT /conflicts/{conflict_id}/resolve *)

\* Mutant: the UPDATE flips the flag.
ResolveRowsToggle(conflict_id) ==
    {IF c.id = conflict_id THEN [c EXCEPT !.resolved = ~c.resolved] ELSE c :
        c \in conflicts}

\* UPDATE conflicts SET resolved = 1 WHERE id = conflict_id
ResolveRows(conflict_id) ==
    {IF c.id = conflict_id THEN [c EXCEPT !.resolved = TRUE] ELSE c :
        c \in conflicts}

\* Mutant: rowcount counts only the rows whose resolved flag changed.
ResolveResponseChangedRows(current_user, conflict_id) ==
    LET rowcount == Cardinality({c \in conflicts :
                                    c.id = conflict_id /\ ~c.resolved})
    IN  IF current_user = NoUser THEN credentials_exception
        ELSE IF rowcount = 0 THEN Response(404, "Conflict not found")
        ELSE Ok

\* Mutant: only an admin or an owner named by the record may resolve it.
ResolveResponseOwnersOnly(current_user, conflict_id) ==
    LET rows == {c \in conflicts : c.id = conflict_id}
    IN  IF current_user = NoUser THEN credentials_exception
        ELSE IF rows = {} THEN Response(404, "Conflict not found")
        ELSE IF \A c \in rows :
                    /\ ~current_user.is_admin
                    /\ current_user.id \notin {c.user1_id, c.user2_id}
        THEN Response(403, "Not authorized")
        ELSE Ok

\* Mutant: rowcount is not looked at.
ResolveResponseNoRowcount(current_user, conflict_id) ==
    IF current_user = NoUser THEN credentials_exception ELSE Ok

\* What resolve_conflict answers: rowcount is the number of rows the UPDATE
\* matched, whether or not their flag changed.
ResolveResponse(current_user, conflict_id) ==
    LET rowcount == Cardinality({c \in conflicts : c.id = conflict_id})
    IN  IF current_user = NoUser THEN credentials_exception
        ELSE IF rowcount = 0 THEN Response(404, "Conflict not found")
        ELSE Ok

resolve_conflict(token, conflict_id) ==
    LET current_user == get_current_user(token)
    IN  /\ Respond("resolve_conflict", current_user.id, conflict_id, 0,
                   ResolveResponse(current_user, conflict_id))
        /\ IF current_user # NoUser
           THEN conflicts' = ResolveRows(conflict_id)
           ELSE UNCHANGED conflicts
        /\ UNCHANGED <<users, bookings, now, nextUserId, nextBookingId,
                       nextConflictId, reqs, LOGIN_ATTEMPTS, failed>>

-----------------------------------------------------------------------------
(* GET /bookings, GET /conflicts, GET /conflicts/user *)

\* Mutant: every caller is served the admin's query.
BookingsListedAll(current_user) == bookings

\* The rows GET /bookings returns to current_user.
BookingsListed(current_user) ==
    IF current_user.is_admin THEN bookings
    ELSE {b \in bookings : b.user_id = current_user.id}

\* Mutant: the query of a user who is not an admin matches user1_id only.
ConflictsListedUser1(current_user) ==
    IF current_user.is_admin THEN {c \in conflicts : ~c.resolved}
    ELSE {c \in conflicts : ~c.resolved /\ c.user1_id = current_user.id}

\* The rows GET /conflicts returns to current_user.
ConflictsListed(current_user) ==
    IF current_user.is_admin THEN {c \in conflicts : ~c.resolved}
    ELSE {c \in conflicts :
             /\ ~c.resolved
             /\ (c.user1_id = current_user.id
                    \/ c.user2_id = current_user.id)}

\* The rows GET /conflicts/user returns to current_user.
UserConflictsListed(current_user) ==
    {c \in conflicts :
        /\ (c.user1_id = current_user.id \/ c.user2_id = current_user.id)
        /\ ~c.resolved}

\* The three handlers change no table; the response body is the listing of
\* the state they run in.
ListingResponse(current_user) ==
    IF current_user = NoUser THEN credentials_exception ELSE Ok

get_bookings(token) ==
    LET current_user == get_current_user(token)
    IN  /\ Respond("get_bookings", current_user.id, 0, 0,
                   ListingResponse(current_user))
        /\ UNCHANGED <<users, bookings, conflicts, now, nextUserId,
                       nextBookingId, nextConflictId, reqs, LOGIN_ATTEMPTS,
                       failed>>

get_conflicts(token) ==
    LET current_user == get_current_user(token)
    IN  /\ Respond("get_conflicts", current_user.id, 0, 0,
                   ListingResponse(current_user))
        /\ UNCHANGED <<users, bookings, conflicts, now, nextUserId,
                       nextBookingId, nextConflictId, reqs, LOGIN_ATTEMPTS,
                       failed>>

get_user_conflicts(token) ==
    LET current_user == get_current_user(token)
    IN  /\ Respond("get_user_conflicts", current_user.id, 0, 0,
                   ListingResponse(current_user))
        /\ UNCHANGED <<users, bookings, conflicts, now, nextUserId,
                       nextBookingId, nextConflictId, reqs, LOGIN_ATTEMPTS,
                       failed>>

-----------------------------------------------------------------------------
(* The server clock *)

\* An hour passes.
Tick ==
    /\ now + 60 <= 60 * MaxNow
    /\ now' = now + 60
    /\ UNCHANGED <<users, bookings, conflicts, nextUserId, nextBookingId,
                   nextConflictId, last, reqs, LOGIN_ATTEMPTS, failed>>

-----------------------------------------------------------------------------
(* Requests, each handler running to completion *)

WeakPasswords ==
    {Str(<<"a", "1", "A">>),
     Str(<<"a", "a", "a", "a", "a", "a", "a", "1">>),
     Str(<<"A", "A", "A", "A", "A", "A", "A", "1">>),
     Str(<<"A", "a", "a", "a", "a", "a", "a", "a">>)}

RutvikAdminTest ==
    Str(<<"r", "u", "t", "v", "i", "k", "_", "a", "d", "m", "i", "n", "_",
          "t", "e", "s", "t">>)

RegisterInputs ==
    [username : {Rutvik, Str(<<" ", "R", "u", "t", "v", "i", "k">>), Alice,
                 RutvikAdminTest, Str(<<"a", "b">>), Str(<<" ", "a", "b">>),
                 Str(<<"a", "!", "c">>), Str(<<"_", "_", "_">>)},
     password : {StrongPassword}, timezone : {"UTC"}]
    \cup [username : {Alice}, password : WeakPasswords, timezone : {"UTC"}]
    \cup [username : {Alice}, password : {StrongPassword},
          timezone : {"", "Mars/Phobos"}]

\* The bearer tokens clients send: one that does not decode, one signed for
\* each user id up to MaxUsers, and one signed for a subject that has no row
\* in users.
Tokens == 0..(MaxUsers + 1)

BlankTitle == Str(<<" ">>)
Title == Str(<<"t">>)

\* The requests clients send with timestamps written with the suffixes sfx:
\* every pair of timestamps under a good title, one request with a blank
\* title, and two with a timestamp that has no suffix.
BookingInputs(sfx) ==
    [title : {Title}, start_time : TimeStrs(sfx), end_time : TimeStrs(sfx),
     user_timezone : {"UTC"}]
    \cup {[title |-> BlankTitle, start_time |-> [hh |-> 1, suffix |-> "Z"],
           end_time |-> [hh |-> 2, suffix |-> "Z"], user_timezone |-> "UTC"],
          [title |-> Title, start_time |-> [hh |-> 1, suffix |-> ""],
           end_time |-> [hh |-> 2, suffix |-> "Z"], user_timezone |-> "UTC"],
          [title |-> Title, start_time |-> [hh |-> 1, suffix |-> "Z"],
           end_time |-> [hh |-> 2, suffix |-> ""], user_timezone |-> "UTC"]}

\* A request that would store a user is made while fewer than MaxUsers are
\* stored; one that is refused is made at any time.
Register == \E user_data \in RegisterInputs :
    /\ nextUserId <= MaxUsers \/ RegisterResponse(user_data).status # 200
    /\ register(user_data)

CreateBooking ==
    \E token \in Tokens, booking_data \in BookingInputs(UtcSuffixes) :
        nextBookingId <= MaxBookings /\ create_booking(token, booking_data)

DeleteBooking == \E token \in Tokens, booking_id \in 1..nextBookingId :
    delete_booking(token, booking_id)

ResolveConflict == \E token \in Tokens, conflict_id \in 1..nextConflictId :
    resolve_conflict(token, conflict_id)

Next ==
    \/ CreateBooking
    \/ DeleteBooking
    \/ ResolveConflict
    \/ Tick

Spec == Init /\ [][Next]_vars

-----------------------------------------------------------------------------
(* The same requests together with the listings *)

GetBookings == \E token \in Tokens : get_bookings(token)

GetConflicts == \E token \in Tokens : get_conflicts(token)

GetUserConflicts == \E token \in Tokens : get_user_conflicts(token)

GetMe == \E token \in Tokens : get_me(token)

NextRead ==
    \/ CreateBooking
    \/ DeleteBooking
    \/ ResolveConflict
    \/ GetBookings
    \/ GetConflicts
    \/ GetUserConflicts
    \/ GetMe

SpecRead == Init /\ [][NextRead]_vars

-----------------------------------------------------------------------------
(* Requests with timestamps in every form *)

CreateBookingForms ==
    \E token \in Tokens, booking_data \in BookingInputs(Suffixes) :
        nextBookingId <= MaxFormBookings
            /\ create_booking(token, booking_data)

NextForms ==
    \/ CreateBookingForms
    \/ DeleteBooking
    \/ ResolveConflict
    \/ Tick

SpecForms == Init /\ [][NextForms]_vars

-----------------------------------------------------------------------------
(* Registration and login on a fresh database *)

WrongPassword == Str(<<"B", "b", "2", "B", "b", "2", "B", "b">>)

LoginInputs ==
    [username : {Rutvik, Str(<<" ", "a", "l", "i", "c", "e">>)},
     password : {StrongPassword, WrongPassword}]

Login == \E user_data \in LoginInputs : login(user_data)

\* The server starts on an empty database file.
InitAuth ==
    /\ users = {}
    /\ bookings = {}
    /\ conflicts = {}
    /\ now = 0
    /\ nextUserId = 1
    /\ nextBookingId = 1
    /\ nextConflictId = 1
    /\ last = NoExchange
    /\ reqs = [w \in Workers |-> Idle]
    /\ LOGIN_ATTEMPTS = [username \in Handles |-> <<>>]
    /\ failed = [username \in Handles |-> <<>>]

NextAuth ==
    \/ Register
    \/ Login

SpecAuth == InitAuth /\ [][NextAuth]_vars

-----------------------------------------------------------------------------
(* Logins over time, for a handle that is registered and one that is not *)

MaxTicks == 3

\* The clock is read every TickMinutes minutes: of the attempts made at two
\* consecutive readings, the earlier ones leave the lock window one reading
\* before the later ones.
TickMinutes == 8

GuessInputs ==
    [username : {Str(<<" ", "a", "l", "i", "c", "e">>), Bob},
     password : {StrongPassword, WrongPassword}]

LoginGuess == \E user_data \in GuessInputs : login(user_data)

TickAuth ==
    /\ now + TickMinutes <= MaxTicks * TickMinutes
    /\ now' = now + TickMinutes
    /\ UNCHANGED <<users, bookings, conflicts, nextUserId, nextBookingId,
                   nextConflictId, last, reqs, LOGIN_ATTEMPTS, failed>>

NextLogin ==
    \/ LoginGuess
    \/ TickAuth

SpecLogin == Init /\ [][NextLogin]_vars

-----------------------------------------------------------------------------
(* Requests served by several workers on the one database file: each       *)
(* worker's handler advances from one commit to the next, and the others   *)
(* may run in between                                                      *)

Free(w) == reqs[w].pc \in {"idle", "done"}

\* get_current_user, the validation and the SELECT of create_booking with
\* its scan loop; a request that is refused ends here.
create_booking_scan(w, token, booking_data) ==
    LET current_user == get_current_user(token)
        r == CreateResponse(current_user, booking_data)
    IN  /\ Free(w)
        /\ IF r.status = 200
           THEN /\ reqs' = [reqs EXCEPT ![w] =
                       [pc |-> "scanned", user |-> current_user,
                        data |-> booking_data,
                        found |-> ScanConflicts(bookings, booking_data)]]
                /\ UNCHANGED last
           ELSE /\ Respond("create_booking", current_user.id, 0, 0, r)
                /\ UNCHANGED reqs
        /\ UNCHANGED <<users, bookings, conflicts, now, nextUserId,
                       nextBookingId, nextConflictId, LOGIN_ATTEMPTS, failed>>

\* INSERT INTO bookings and the first commit.
create_booking_insert(w) ==
    /\ reqs[w].pc = "scanned"
    /\ InsertBooking(nextBookingId, reqs[w].user, reqs[w].data)
    /\ reqs' = [reqs EXCEPT ![w] =
           [pc |-> "inserted", user |-> reqs[w].user, data |-> reqs[w].data,
            found |-> reqs[w].found, booking_id |-> nextBookingId]]
    /\ UNCHANGED <<users, conflicts, now, nextUserId, nextConflictId, last,
                   LOGIN_ATTEMPTS, failed>>

\* The INSERTs INTO conflicts, the second commit and the response.
create_booking_record(w) ==
    /\ reqs[w].pc = "inserted"
    /\ InsertConflicts(reqs[w].found, reqs[w].booking_id, reqs[w].user,
                       reqs[w].data)
    /\ Respond("create_booking", reqs[w].user.id, reqs[w].booking_id, 0, Ok)
    /\ reqs' = [reqs EXCEPT ![w] =
           [pc |-> "done", found |-> reqs[w].found,
            booking_id |-> reqs[w].booking_id, status |-> Ok.status]]
    /\ UNCHANGED <<users, bookings, now, nextUserId, nextBookingId,
                   LOGIN_ATTEMPTS, failed>>

\* get_current_user, the SELECT of delete_booking and the two checks; a
\* request that is refused ends here.
delete_booking_select(w, token, booking_id) ==
    LET current_user == get_current_user(token)
        r == DeleteResponse(current_user, booking_id)
    IN  /\ Free(w)
        /\ IF r.status = 200
           THEN /\ reqs' = [reqs EXCEPT ![w] =
                       [pc |-> "selected", user |-> current_user,
                        booking_id |-> booking_id,
                        owner |-> OwnerOf(current_user, booking_id)]]
                /\ UNCHANGED last
           ELSE /\ Respond("delete_booking", current_user.id, booking_id,
                           OwnerOf(current_user, booking_id), r)
                /\ UNCHANGED reqs
        /\ UNCHANGED <<users, bookings, conflicts, now, nextUserId,
                       nextBookingId, nextConflictId, LOGIN_ATTEMPTS, failed>>

\* The two DELETE statements, the commit and the response.
delete_booking_commit(w) ==
    /\ reqs[w].pc = "selected"
    /\ DeleteRows(reqs[w].booking_id)
    /\ Respond("delete_booking", reqs[w].user.id, reqs[w].booking_id,
               reqs[w].owner, Ok)
    /\ reqs' = [reqs EXCEPT ![w] = Idle]
    /\ UNCHANGED <<users, now, nextUserId, nextBookingId, nextConflictId,
                   LOGIN_ATTEMPTS, failed>>

\* The bookings inserted and those about to be.
Started ==
    nextBookingId - 1
        + Cardinality({w \in Workers : reqs[w].pc = "scanned"})

\* The callers of the concurrent requests: rutvik, and a client without a
\* valid token.
ConcTokens == {BadToken, 1}

CreateScan ==
    \E w \in Workers, token \in ConcTokens,
       booking_data \in BookingInputs(UtcSuffixes) :
        Started < MaxBookings /\ create_booking_scan(w, token, booking_data)

CreateInsert == \E w \in Workers : create_booking_insert(w)

CreateRecord == \E w \in Workers : create_booking_record(w)

DeleteSelect ==
    \E w \in Workers, token \in ConcTokens, booking_id \in 1..nextBookingId :
        delete_booking_select(w, token, booking_id)

DeleteCommit == \E w \in Workers : delete_booking_commit(w)

NextConc ==
    \/ CreateScan
    \/ CreateInsert
    \/ CreateRecord
    \/ DeleteSelect
    \/ DeleteCommit

SpecConc == Init /\ [][NextConc]_vars

-----------------------------------------------------------------------------
(* Bookings made under several timezone labels by callers who change their *)
(* stored timezone                                                         *)

\* Labels a client may send: two names of pytz.all_timezones and one that
\* is none.
TimezoneLabels == ValidTimezones \cup {"Mars/Olympus"}

LabelledInputs ==
    {[booking_data EXCEPT !.user_timezone = label] :
        booking_data \in BookingInputs(UtcSuffixes), label \in TimezoneLabels}

CreateBookingLabelled ==
    \E token \in Tokens, booking_data \in LabelledInputs :
        nextBookingId <= MaxFormBookings /\ create_booking(token, booking_data)

UpdateUserTimezone ==
    \E token \in Tokens, timezone \in TimezoneLabels :
        update_user_timezone(token, timezone)

NextTz == CreateBookingLabelled \/ UpdateUserTimezone

SpecTz == Init /\ [][NextTz]_vars

-----------------------------------------------------------------------------
(* Booking and conflict requests together with logins that succeed *)

LoginOk ==
    \E user_data \in [username : {Rutvik, Str(<<" ", "a", "l", "i", "c", "e">>)},
                      password : {StrongPassword}] :
        login(user_data)

NextFlag ==
    \/ CreateBooking
    \/ DeleteBooking
    \/ ResolveConflict
    \/ GetConflicts
    \/ LoginOk

SpecFlag == Init /\ [][NextFlag]_vars

-----------------------------------------------------------------------------
(* Bookings whose titles are blank, padded or long *)

\* The longest stripped title create_booking lets pass.
MaxTitle == 255

LongTitle == [i \in 1..(MaxTitle + 1) |-> Ord("t")]

\* MaxTitle characters between two spaces.
PaddedTitle ==
    <<Ord(" ")>> \o [i \in 1..MaxTitle |-> Ord("t")] \o <<Ord(" ")>>

Titles == {Title, BlankTitle, <<>>, LongTitle, PaddedTitle}

TitleInputs ==
    [title : Titles, start_time : TimeStrs(UtcSuffixes),
     end_time : TimeStrs(UtcSuffixes), user_timezone : {"UTC"}]

CreateBookingTitles ==
    \E token \in Tokens, booking_data \in TitleInputs :
        nextBookingId <= MaxFormBookings /\ create_booking(token, booking_data)

NextTitle == CreateBookingTitles

SpecTitle == Init /\ [][NextTitle]_vars

-----------------------------------------------------------------------------
(* Bookings requested with a body that names an owner *)

\* The pydantic model of the request body: the declared fields are kept,
\* any other key of the JSON object is dropped.
BookingCreate(body) ==
    [title |-> body.title, start_time |-> body.start_time,
     end_time |-> body.end_time, user_timezone |-> body.user_timezone]

\* JSON bodies with the keys user_id and user_name added.
OwnerNamingBodies ==
    [title : {Title}, start_time : TimeStrs(UtcSuffixes),
     end_time : TimeStrs(UtcSuffixes), user_timezone : {"UTC"},
     user_id : 1..MaxUsers, user_name : {Rutvik, Alice}]

CreateBookingNamingOwner ==
    \E token \in Tokens, body \in OwnerNamingBodies :
        nextBookingId <= MaxFormBookings
            /\ create_booking(token, BookingCreate(body))

NextOwner ==
    \/ CreateBookingNamingOwner
    \/ DeleteBooking
    \/ ResolveConflict
    \/ UpdateUserTimezone

SpecOwner == Init /\ [][NextOwner]_vars

-----------------------------------------------------------------------------
(* Registrations served by several workers on the one database file: the  *)
(* handler is split where another worker can get in, between its SELECT    *)
(* and its INSERT                                                          *)

\* The validation of register and its SELECT; a request that is refused
\* ends here.
register_check(w, user_data) ==
    LET r == RegisterResponse(user_data)
    IN  /\ Free(w)
        /\ IF r.status = 200
           THEN /\ reqs' = [reqs EXCEPT ![w] =
                       [pc |-> "checked", data |-> user_data]]
                /\ UNCHANGED last
           ELSE /\ Respond("register", 0, 0, 0, r)
                /\ UNCHANGED reqs
        /\ UNCHANGED <<users, bookings, conflicts, now, nextUserId,
                       nextBookingId, nextConflictId, LOGIN_ATTEMPTS, failed>>

\* Mutant: the column is not declared UNIQUE.
UniqueViolationNever(username) == FALSE

\* username TEXT UNIQUE NOT NULL: an INSERT of a handle that a row has
\* already raises sqlite3.IntegrityError.
UniqueViolation(username) == \E u \in users : u.username = username

\* The INSERT INTO users and the commit; the IntegrityError is not caught
\* and the request is answered 500.
register_insert(w) ==
    LET user_data == reqs[w].data
        username == Normalize(user_data.username)
        tz == IF user_data.timezone = "" THEN "UTC" ELSE user_data.timezone
        r == IF UniqueViolation(username) THEN ServerError ELSE Ok
    IN  /\ reqs[w].pc = "checked"
        /\ Respond("register", 0, IF r.status = 200 THEN nextUserId ELSE 0,
                   0, r)
        /\ IF r.status = 200
           THEN /\ users' = users \cup
                       {UserRow(nextUserId, username,
                                get_password_hash(user_data.password),
                                tz, IsAdminName(username))}
                /\ nextUserId' = nextUserId + 1
           ELSE UNCHANGED <<users, nextUserId>>
        /\ reqs' = [reqs EXCEPT ![w] =
               [pc |-> "done", username |-> username, status |-> r.status]]
        /\ UNCHANGED <<bookings, conflicts, now, nextBookingId,
                       nextConflictId, LOGIN_ATTEMPTS, failed>>

RaceInputs ==
    [username : {Rutvik, Str(<<" ", "R", "u", "t", "v", "i", "k">>), Alice},
     password : {StrongPassword}, timezone : {"UTC", "Mars/Phobos"}]

\* Registrations that passed the SELECT or have inserted their row.
StartedRegistrations ==
    nextUserId - 1
        + Cardinality({w \in Workers : reqs[w].pc = "checked"})

RegisterCheck ==
    \E w \in Workers, user_data \in RaceInputs :
        /\ StartedRegistrations < MaxUsers
              \/ RegisterResponse(user_data).status # 200
        /\ register_check(w, user_data)

RegisterInsert == \E w \in Workers : register_insert(w)

NextRace ==
    \/ RegisterCheck
    \/ RegisterInsert

SpecRace == InitAuth /\ [][NextRace]_vars

-----------------------------------------------------------------------------
(* Registrations and timezone updates on a fresh database *)

\* GET /timezones: the list of valid labels.
get_timezones == ValidTimezones

NextZone ==
    \/ Register
    \/ UpdateUserTimezone

SpecZone == InitAuth /\ [][NextZone]_vars

-----------------------------------------------------------------------------
(* What the claims are stated in *)

\* The instant an ISO timestamp denotes, in minutes.
InstantOf(ts) ==
    CASE ts.suffix = "Z" -> 60 * ts.hh
      [] ts.suffix = "+00:00" -> 60 * ts.hh
      [] ts.suffix = "+01:00" -> 60 * ts.hh - 60

\* Two bookings whose half-open intervals share an instant.
IntervalsOverlap(a, b) ==
    /\ InstantOf(a.start_time) < InstantOf(b.end_time)
    /\ InstantOf(b.start_time) < InstantOf(a.end_time)

BookingIds == {b.id : b \in bookings}

Linked(a, b) ==
    \E c \in conflicts :
        \/ c.booking1_id = a.id /\ c.booking2_id = b.id
        \/ c.booking1_id = b.id /\ c.booking2_id = a.id

Refers(c, booking_id) ==
    c.booking1_id = booking_id \/ c.booking2_id = booking_id

\* The latest exchange was a call of op answered with status.
Answered(op, status) == last.op = op /\ last.status = status

IsAdmin(user_id) == \E u \in users : u.id = user_id /\ u.is_admin

\* This step is a delete_booking request of an authenticated caller (the
\* clock does not move while a handler runs).
DeleteStep == last'.op = "delete_booking" /\ last'.user # 0 /\ now' = now

-----------------------------------------------------------------------------
(* C1 *)

\* C1: a successful create_booking of B inserts exactly one conflict record
\* for each booking A that was stored and overlaps B, with booking1_id = A.id
\* and booking2_id = B.id, and no other record.
C1_OneRecordPerOverlap ==
    [][\A B \in bookings' \ bookings :
          LET new == conflicts' \ conflicts
              hit == {A \in bookings : IntervalsOverlap(A, B)}
          IN  /\ \A c \in new :
                    /\ c.booking2_id = B.id
                    /\ \E A \in hit : c.booking1_id = A.id
              /\ \A A \in hit :
                    Cardinality({c \in new : c.booking1_id = A.id}) = 1
              /\ Cardinality(new) = Cardinality(hit)]_vars

\* Booking 3 was just created over bookings 1 and 2, which do not overlap
\* each other: two records name it, none links 1 and 2.
C1_Witness ==
    /\ Answered("create_booking", 200) /\ last.id = 3
    /\ BookingIds = {1, 2, 3}
    /\ {c.booking1_id : c \in {d \in conflicts : d.booking2_id = 3}} = {1, 2}
    /\ Cardinality(conflicts) = 2

-----------------------------------------------------------------------------
(* C2 *)

\* C2: with every request run to completion before the next starts, any two
\* stored bookings whose intervals overlap are linked by a conflict record.
C2_NoMissedOverlap ==
    \A a, b \in bookings :
        a.id # b.id /\ IntervalsOverlap(a, b) => Linked(a, b)

\* After a delete, two overlapping bookings remain, linked by a resolved
\* record.
C2_Witness ==
    /\ Answered("delete_booking", 200)
    /\ \E a, b \in bookings :
          /\ a.id # b.id /\ IntervalsOverlap(a, b)
          /\ \E c \in conflicts :
                c.resolved /\ c.booking1_id = a.id /\ c.booking2_id = b.id

-----------------------------------------------------------------------------
(* C4 *)

\* C4: a successful delete_booking removes the booking and every conflict
\* record that refers to it, and nothing else.
C4_DeleteCascade ==
    [][last'.op = "delete_booking" /\ last'.status = 200 =>
          /\ bookings' = {b \in bookings : b.id # last'.id}
          /\ conflicts' = {c \in conflicts : ~Refers(c, last'.id)}]_vars

\* A delete has removed a booking with its records, and a resolved record
\* of two other bookings is still there.
C4_Witness ==
    /\ Answered("delete_booking", 200)
    /\ Cardinality(conflicts) < nextConflictId - 1
    /\ \E c \in conflicts : c.resolved /\ ~Refers(c, last.id)

-----------------------------------------------------------------------------
(* C5 *)

\* C5: a delete_booking of a stored booking by a caller who neither owns it
\* nor is an admin is answered 403 and changes no booking and no conflict
\* record.
C5_ForbiddenDelete ==
    [][(/\ DeleteStep
        /\ ~IsAdmin(last'.user)
        /\ \E b \in bookings : b.id = last'.id /\ b.user_id # last'.user)
       => /\ last'.status = 403
          /\ UNCHANGED <<bookings, conflicts>>]_vars

\* A non-admin was refused the delete of another user's booking, which has
\* a conflict record.
C5_Witness ==
    /\ Answered("delete_booking", 403)
    /\ last.owner # last.user
    /\ \E c \in conflicts : Refers(c, last.id)

-----------------------------------------------------------------------------
(* C6 *)

\* C6: a delete_booking of a stored booking by its owner or by an admin is
\* answered 200 and removes the booking.
C6_OwnerOrAdminDeletes ==
    [][(/\ DeleteStep
        /\ \E b \in bookings :
              /\ b.id = last'.id
              /\ (b.user_id = last'.user \/ IsAdmin(last'.user)))
       => /\ last'.status = 200
          /\ last'.id \notin {b.id : b \in bookings'}]_vars

\* An admin has deleted a booking owned by another user.
C6_Witness ==
    /\ Answered("delete_booking", 200)
    /\ last.owner # last.user
    /\ IsAdmin(last.user)
    /\ last.id \notin BookingIds

-----------------------------------------------------------------------------
(* C7 *)

\* C7: a delete_booking of an id that is not stored is answered 404 to every
\* authenticated caller and changes nothing; an id that was issued and is
\* no longer stored never comes back.
C7_NotFoundDelete ==
    [][/\ (DeleteStep /\ last'.id \notin BookingIds)
          => /\ last'.status = 404
             /\ UNCHANGED <<bookings, conflicts>>
       /\ \A id \in 1..(nextBookingId - 1) :
             id \notin BookingIds => id \notin {b.id : b \in bookings'}]_vars

\* A non-admin's delete of an id that had been deleted before was answered
\* 404.
C7_Witness ==
    /\ Answered("delete_booking", 404)
    /\ last.user # 0 /\ ~IsAdmin(last.user)
    /\ last.id < nextBookingId
    /\ last.id \notin BookingIds

-----------------------------------------------------------------------------
(* C8 *)

Aware(ts) == ts.suffix # ""

\* This step is a create_booking request of an authenticated caller.
CreateStep == last'.op = "create_booking" /\ last'.user # 0 /\ now' = now

\* This step is answered 400 and stores neither a booking nor a conflict
\* record.
Rejected == last'.status = 400 /\ UNCHANGED <<bookings, conflicts>>

\* C8: a create_booking whose start instant is earlier than the server
\* clock is answered 400 and stores neither a booking nor a conflict record
\* (stated as: a create that is not so rejected is no such request).
C8_PastStartRejected ==
    [][CreateStep /\ ~Rejected =>
          \A booking_data \in BookingInputs(Suffixes) :
              ~(/\ Aware(booking_data.start_time)
                /\ InstantOf(booking_data.start_time) < now
                /\ create_booking(last'.user, booking_data))]_vars

\* A create was refused for its start in the past while stored bookings
\* reach into the past as well.
C8_Witness ==
    /\ Answered("create_booking", 400)
    /\ last.detail = "Cannot create bookings in the past"
    /\ \E b \in bookings : InstantOf(b.start_time) < now

-----------------------------------------------------------------------------
(* C9 *)

\* C9: a create_booking whose start instant is not before its end instant
\* is answered 400 and stores nothing (stated as: a create that is not so
\* rejected is no such request), and every stored booking starts before it
\* ends.
C9_StartBeforeEnd ==
    [][/\ CreateStep /\ ~Rejected =>
             \A booking_data \in BookingInputs(Suffixes) :
                 ~(/\ Aware(booking_data.start_time)
                   /\ Aware(booking_data.end_time)
                   /\ InstantOf(booking_data.start_time)
                         >= InstantOf(booking_data.end_time)
                   /\ create_booking(last'.user, booking_data))
       /\ \A b \in bookings' :
             InstantOf(b.start_time) < InstantOf(b.end_time)]_vars

\* A create was refused for the order of its timestamps, and a booking
\* whose end string sorts before its start string is stored.
C9_Witness ==
    /\ Answered("create_booking", 400)
    /\ last.detail = "Start time must be before end time"
    /\ \E b \in bookings : TimeStrLess(b.end_time, b.start_time)

-----------------------------------------------------------------------------
(* C10 *)

MaxOf(x, y) == IF x >= y THEN x ELSE y
MinOf(x, y) == IF x <= y THEN x ELSE y

\* C10: the conflict_start and conflict_end of every conflict record denote
\* the later of the two bookings' start instants and the earlier of their
\* end instants, a non-empty interval inside both bookings.
C10_OverlapBounds ==
    \A c \in conflicts : \A a, b \in bookings :
        (a.id = c.booking1_id /\ b.id = c.booking2_id) =>
            LET s == InstantOf(c.conflict_start)
                e == InstantOf(c.conflict_end)
            IN  /\ s = MaxOf(InstantOf(a.start_time), InstantOf(b.start_time))
                /\ e = MinOf(InstantOf(a.end_time), InstantOf(b.end_time))
                /\ s < e

-----------------------------------------------------------------------------
(* C3 *)

FoundIds(w) == {reqs[w].found[i].id : i \in 1..Len(reqs[w].found)}

StoredBooking(id) == CHOOSE b \in bookings : b.id = id

\* Workers v and w have each finished a create_booking, for overlapping
\* intervals, and each scanned the bookings before the other inserted.
BothScannedFirst(v, w) ==
    /\ v # w
    /\ reqs[v].pc = "done" /\ reqs[w].pc = "done"
    /\ {reqs[v].booking_id, reqs[w].booking_id} \subseteq BookingIds
    /\ IntervalsOverlap(StoredBooking(reqs[v].booking_id),
                        StoredBooking(reqs[w].booking_id))
    /\ reqs[w].booking_id \notin FoundIds(v)
    /\ reqs[v].booking_id \notin FoundIds(w)

\* C3: when two create_booking requests for overlapping intervals both scan
\* before either inserts, both are answered 200 and no conflict record
\* links their two bookings; each is linked only to bookings it scanned.
C3_RaceMissesConflict ==
    \A v, w \in Workers :
        BothScannedFirst(v, w) =>
            /\ \A c \in conflicts :
                  /\ ~(c.booking1_id = reqs[v].booking_id
                         /\ c.booking2_id = reqs[w].booking_id)
                  /\ c.booking2_id = reqs[v].booking_id
                        => c.booking1_id \in FoundIds(v)
            /\ reqs[v].status = 200

\* Both requests are done, their overlapping bookings are stored and each
\* is linked to the booking that was there before, not to the other.
C3_Witness ==
    \E v, w \in Workers :
        /\ BothScannedFirst(v, w)
        /\ ~Linked(StoredBooking(reqs[v].booking_id),
                   StoredBooking(reqs[w].booking_id))
        /\ FoundIds(v) # {} /\ FoundIds(w) # {}
        /\ Cardinality(conflicts) = 2

-----------------------------------------------------------------------------
(* C11 *)

\* The conflict records a step adds that pair stored booking A with the new
\* booking B.
RecordsFor(A, B) ==
    {c \in conflicts' \ conflicts :
        c.booking1_id = A.id /\ c.booking2_id = B.id}

\* C11: when create_booking stores B, a conflict record pairing a stored
\* booking A with B is inserted if and only if B starts before A ends and B
\* ends after A starts; when one of the two ends exactly where the other
\* starts no record is inserted, and when both have the same start and the
\* same end exactly one is.
C11_HalfOpenOverlap ==
    [][\A B \in bookings' \ bookings : \A A \in bookings :
          LET bs == InstantOf(B.start_time)
              be == InstantOf(B.end_time)
              as == InstantOf(A.start_time)
              ae == InstantOf(A.end_time)
          IN  /\ RecordsFor(A, B) # {} <=> (bs < ae /\ be > as)
              /\ (be = as \/ bs = ae) => RecordsFor(A, B) = {}
              /\ (bs = as /\ be = ae) =>
                     Cardinality(RecordsFor(A, B)) = 1]_vars

\* The booking just created has the same start and end as one stored
\* booking and starts where another ends: one record, for the first.
C11_Witness ==
    /\ Answered("create_booking", 200)
    /\ \E A, T, B \in bookings :
          /\ B.id = last.id /\ A.id # B.id /\ T.id # B.id
          /\ InstantOf(A.start_time) = InstantOf(B.start_time)
          /\ InstantOf(A.end_time) = InstantOf(B.end_time)
          /\ InstantOf(T.end_time) = InstantOf(B.start_time)
          /\ {c.booking1_id : c \in {d \in conflicts :
                                        d.booking2_id = B.id}} = {A.id}

-----------------------------------------------------------------------------
(* C12 *)

\* create_booking for the interval of B, run while A is the stored booking,
\* finds a conflict.
DetectsOver(A, B) == ScanConflicts({A}, B) # <<>>

\* C12: conflict detection does not depend on the order of creation: for any
\* two stored bookings A and B, creating B while A is stored records a
\* conflict if and only if creating A while B is stored would.
C12_SymmetricDetection ==
    \A A, B \in bookings : DetectsOver(A, B) <=> DetectsOver(B, A)

\* The later booking starts before the earlier one and overlaps it, their
\* timestamps written with different offsets, and a record links them.
C12_Witness ==
    /\ Answered("create_booking", 200)
    /\ \E A, B \in bookings :
          /\ A.id < B.id /\ B.id = last.id
          /\ A.start_time.suffix # B.start_time.suffix
          /\ InstantOf(B.start_time) < InstantOf(A.start_time)
          /\ DetectsOver(A, B)
          /\ \E c \in conflicts :
                c.booking1_id = A.id /\ c.booking2_id = B.id

-----------------------------------------------------------------------------
(* C13 *)

\* This step is a resolve_conflict request of an authenticated caller.
ResolveStep ==
    last'.op = "resolve_conflict" /\ last'.user # 0 /\ now' = now

\* C13: resolve_conflict on the id of a stored record is answered 200 and
\* leaves the record resolved; when the record was resolved already it is
\* answered 200 all the same and no table changes, so two resolves leave the
\* state one resolve leaves.
C13_ResolveIdempotent ==
    [][ResolveStep =>
          \A c \in conflicts :
              c.id = last'.id =>
                  /\ last'.status = 200
                  /\ \E d \in conflicts' : d.id = c.id /\ d.resolved
                  /\ c.resolved =>
                        UNCHANGED <<users, bookings, conflicts, nextUserId,
                                    nextBookingId, nextConflictId>>]_vars

\* A resolve was answered 200 for a stored record, which is resolved; this
\* is the state after the first and after every later resolve of the record.
C13_Witness ==
    /\ Answered("resolve_conflict", 200)
    /\ \E c \in conflicts : c.id = last.id /\ c.resolved
    /\ \E c \in conflicts : c.id # last.id /\ ~c.resolved

-----------------------------------------------------------------------------
(* C14 *)

\* C14: resolve_conflict with an id that no stored record has, because none
\* was ever created with it or because a cascade delete removed it, is
\* answered 404 and changes no conflict record and no booking.
C14_ResolveNotFound ==
    [][ResolveStep /\ (\A c \in conflicts : c.id # last'.id) =>
          /\ last'.status = 404
          /\ last'.detail = "Conflict not found"
          /\ UNCHANGED <<bookings, conflicts>>]_vars

\* A resolve was answered 404 for the id of a record that a delete removed,
\* while another record is stored and unresolved.
C14_Witness ==
    /\ Answered("resolve_conflict", 404)
    /\ last.id < nextConflictId
    /\ \A c \in conflicts : c.id # last.id
    /\ \E c \in conflicts : ~c.resolved

-----------------------------------------------------------------------------
(* C15 *)

\* The authenticated callers, as get_current_user hands them to a handler.
Callers ==
    {get_current_user(token) : token \in Tokens} \ {NoUser}

\* C15: GET /bookings returns to a caller who is not an admin exactly the
\* bookings whose user_id is the caller's id, and to an admin exactly all
\* stored bookings.
C15_BookingVisibility ==
    \A current_user \in Callers :
        BookingsListed(current_user) =
            IF IsAdmin(current_user.id) THEN bookings
            ELSE {b \in bookings : b.user_id = current_user.id}

\* alice, who is no admin, has just listed the bookings: one is hers and is
\* listed, another is rutvik's and is not.
C15_Witness ==
    /\ Answered("get_bookings", 200)
    /\ ~IsAdmin(last.user)
    /\ \E current_user \in Callers :
          /\ current_user.id = last.user
          /\ BookingsListed(current_user) # {}
          /\ \E b \in bookings : b \notin BookingsListed(current_user)

-----------------------------------------------------------------------------
(* C16 *)

\* What the claim says a caller sees of the conflict records.
VisibleConflicts(current_user) ==
    {c \in conflicts :
        /\ ~c.resolved
        /\ \/ IsAdmin(current_user.id)
           \/ current_user.id \in {c.user1_id, c.user2_id}}

\* C16: GET /conflicts returns only unresolved records: to a caller who is
\* not an admin exactly those that name the caller as user1_id or user2_id,
\* to an admin all of them; GET /conflicts/user returns the caller's own
\* unresolved records; and a record that is resolved stays resolved, so it
\* is in no listing from then on.
C16_ConflictVisibility ==
    [][/\ \A current_user \in Callers' :
             /\ ConflictsListed(current_user)' =
                    VisibleConflicts(current_user)'
             /\ \A c \in UserConflictsListed(current_user)' :
                    /\ ~c.resolved
                    /\ current_user.id \in {c.user1_id, c.user2_id}
       /\ \A c \in conflicts : \A d \in conflicts' :
             c.resolved /\ d.id = c.id =>
                 /\ d.resolved
                 /\ \A current_user \in Callers' :
                       /\ d \notin ConflictsListed(current_user)'
                       /\ d \notin UserConflictsListed(current_user)']_vars

\* alice has just listed the conflicts: a record between her and rutvik is
\* listed, an unresolved record between two bookings of rutvik is not, and
\* a resolved record of hers is not either.
C16_Witness ==
    /\ Answered("get_conflicts", 200)
    /\ ~IsAdmin(last.user)
    /\ \E current_user \in Callers :
          /\ current_user.id = last.user
          /\ ConflictsListed(current_user) # {}
          /\ \E c \in conflicts :
                ~c.resolved /\ c \notin ConflictsListed(current_user)
          /\ \E c \in conflicts :
                c.resolved /\ current_user.id \in {c.user1_id, c.user2_id}

-----------------------------------------------------------------------------
(* C17 *)

\* C17: after any sequence of register and login requests the stored
\* is_admin flag of a user is true if and only if the stored handle is
\* 'rutvik' (the handle as normalised at registration), and that stored flag
\* is the one get_current_user hands to the handlers that authorise.
C17_AdminIffRutvik ==
    /\ \A u \in users : u.is_admin <=> u.username = Rutvik
    /\ \A current_user \in Callers :
          current_user.is_admin <=> current_user.username = Rutvik

\* rutvik has logged in and is an admin, while rutvik_admin_test is
\* registered and is none.
C17_Witness ==
    /\ Answered("login", 200)
    /\ \E u \in users : u.id = last.id /\ u.username = Rutvik /\ u.is_admin
    /\ \E u \in users : u.username = RutvikAdminTest /\ ~u.is_admin

-----------------------------------------------------------------------------
(* C18 *)

\* This step is a register request.
RegisterStep == last'.op = "register" /\ now' = now

\* The handle a client means by raw: case and surrounding blanks ignored.
HandleOf(raw) == Lower(Strip(raw))

\* C18: no two stored users have handles that are equal when case and
\* surrounding whitespace are ignored, and a register request whose handle
\* is taken in that sense is answered 400 and leaves the users table as it
\* was (stated as: a register that is not so refused is no such request).
C18_UniqueHandles ==
    [][/\ \A u, v \in users' :
             HandleOf(u.username) = HandleOf(v.username) => u.id = v.id
       /\ RegisterStep /\ ~(last'.status = 400 /\ users' = users) =>
             \A user_data \in RegisterInputs :
                 ~(/\ \E u \in users :
                         HandleOf(u.username) = HandleOf(user_data.username)
                   /\ register(user_data))]_vars

\* A register was refused because the handle exists, with two users stored.
C18_Witness ==
    /\ Answered("register", 400)
    /\ last.detail = "Username already exists"
    /\ Cardinality(users) = 2

-----------------------------------------------------------------------------
(* C19 *)

\* A handle as the claim describes a valid one: at least three characters
\* once normalised, each a letter, a digit or an underscore.
ValidHandle(raw) ==
    LET h == HandleOf(raw)
    IN  /\ Len(h) >= 3
        /\ \A i \in 1..Len(h) : IsAlnum(h[i]) \/ h[i] = Ord("_")

\* A password as the claim describes a strong one.
ValidPassword(pw) ==
    /\ Len(pw) >= 8
    /\ \E i \in 1..Len(pw) : pw[i] \in 65..90
    /\ \E i \in 1..Len(pw) : pw[i] \in 97..122
    /\ \E i \in 1..Len(pw) : pw[i] \in 48..57

\* C19: a register request with an invalid handle (shorter than three
\* characters after normalisation, or with a character that is no letter,
\* digit or underscore) or a weak password (shorter than eight characters,
\* or without an uppercase letter, a lowercase letter or a digit) is
\* answered 400 and creates no user (stated as: a register that is not so
\* refused is no such request).
C19_InvalidRegistrationRejected ==
    [][RegisterStep /\ ~(last'.status = 400 /\ users' = users) =>
          \A user_data \in RegisterInputs :
              ~(/\ ~ValidHandle(user_data.username)
                     \/ ~ValidPassword(user_data.password)
                /\ register(user_data))]_vars

\* A register was refused for its password while a user is stored.
C19_Witness ==
    /\ Answered("register", 400)
    /\ last.detail = "Password must contain uppercase, lowercase, and digits"
    /\ users # {}

-----------------------------------------------------------------------------
(* C20 *)

\* The login requests with wrong credentials for handle: any password when
\* no user has the handle, a password other than the user's when one has.
WrongGuesses(handle) ==
    {d \in GuessInputs :
        /\ HandleOf(d.username) = handle
        /\ \A u \in users :
              u.username = handle =>
                  u.password_hash # get_password_hash(d.password)}

\* C20: a failed login does not tell whether the handle exists: when the
\* same failed attempts have been made on a registered handle and on one
\* that is not registered, a further attempt with wrong credentials gets the
\* same response for both, 401 with the one detail or 429 once the limit is
\* reached, and is recorded alike, so the two sequences of responses are
\* the same.
C20_NoEnumeration ==
    \A g \in Handles, h \in Handles :
        (/\ \E u \in users : u.username = g
         /\ ~\E u \in users : u.username = h
         /\ LOGIN_ATTEMPTS[g] = LOGIN_ATTEMPTS[h]) =>
            \A c \in WrongGuesses(g), d \in WrongGuesses(h) :
                LET known == LoginOutcome(users, c)
                    unknown == LoginOutcome(users, d)
                IN  /\ known.response = unknown.response
                    /\ known.attempts = unknown.attempts
                    /\ known.response \in
                           {InvalidCredentials, TooManyAttempts}

\* Five failed logins have been made on alice, who is registered, and at
\* the same times on bob, who is not; the last one was answered 401 and the
\* next is answered 429 for both.
C20_Witness ==
    /\ Answered("login", 401)
    /\ LOGIN_ATTEMPTS[Alice] = LOGIN_ATTEMPTS[Bob]
    /\ Len(LOGIN_ATTEMPTS[Bob]) = MAX_LOGIN_ATTEMPTS
    /\ LOGIN_ATTEMPTS[Bob][1] # LOGIN_ATTEMPTS[Bob][MAX_LOGIN_ATTEMPTS]
    /\ \A d \in WrongGuesses(Alice) \cup WrongGuesses(Bob) :
          LoginOutcome(users, d).response = TooManyAttempts

-----------------------------------------------------------------------------
(* C21 *)

\* This step is a login request.
LoginStep == last'.op = "login" /\ now' = now

\* The failed logins of handle in the last LOCK_TIME_MINUTES minutes.
FailuresWithin(handle) ==
    {i \in 1..Len(failed[handle]) :
        now - failed[handle][i].at < LOCK_TIME_MINUTES}

\* Those of them that no successful login of the handle has followed.
StandingFailures(handle) ==
    {i \in FailuresWithin(handle) : ~failed[handle][i].cleared}

\* The request carries the password of the user registered under its handle.
CorrectCredentials(d) ==
    \E u \in users :
        /\ u.username = HandleOf(d.username)
        /\ u.password_hash = get_password_hash(d.password)

\* C21 as stated: a login for a handle is answered 429 if and only if at
\* least MAX_LOGIN_ATTEMPTS failed logins for the handle were recorded in
\* the last LOCK_TIME_MINUTES minutes, whatever its password; with fewer, a
\* login with the correct password is answered 200.
C21_LockedIffFiveFailures ==
    [][LoginStep =>
          \A d \in GuessInputs :
              login(d) =>
                  LET n == Cardinality(FailuresWithin(HandleOf(d.username)))
                  IN  /\ last'.status = 429 <=> n >= MAX_LOGIN_ATTEMPTS
                      /\ n < MAX_LOGIN_ATTEMPTS /\ CorrectCredentials(d)
                            => last'.status = 200]_vars

\* C21 as amended: a login for a handle is answered 429 if and only if at
\* least MAX_LOGIN_ATTEMPTS failed logins for the handle, made since the
\* handle's last successful login, were recorded in the last
\* LOCK_TIME_MINUTES minutes, whatever its password; with fewer, a login
\* with the correct password is answered 200.
C21_LockedIffFiveStanding ==
    [][LoginStep =>
          \A d \in GuessInputs :
              login(d) =>
                  LET n == Cardinality(StandingFailures(HandleOf(d.username)))
                  IN  /\ last'.status = 429 <=> n >= MAX_LOGIN_ATTEMPTS
                      /\ n < MAX_LOGIN_ATTEMPTS /\ CorrectCredentials(d)
                            => last'.status = 200]_vars

\* A login of alice was answered 429: five failed logins made at two
\* different times stand against her, all in the window.
C21_Witness ==
    /\ Answered("login", 429)
    /\ Cardinality(StandingFailures(Alice)) = MAX_LOGIN_ATTEMPTS
    /\ failed[Alice][1].at # failed[Alice][MAX_LOGIN_ATTEMPTS].at
    /\ Cardinality(StandingFailures(Bob)) < MAX_LOGIN_ATTEMPTS

-----------------------------------------------------------------------------
(* C22 *)

\* The times kept under handle.
KeptTimes(attempts) == {attempts[i] : i \in 1..Len(attempts)}

\* C22: a lockout always ends: a login answered 429 records nothing (the
\* handle's list gets no new time and no longer, the history of failed
\* logins is as it was), so however many logins are made while the handle
\* is locked, once every failed login of the handle is LOCK_TIME_MINUTES
\* minutes old or older a login with the correct credentials is answered
\* 200.
C22_LockoutEnds ==
    [][LoginStep =>
          \A d \in GuessInputs :
              login(d) =>
                  LET h == HandleOf(d.username)
                  IN  /\ last'.status = 429 =>
                            /\ failed' = failed
                            /\ Len(LOGIN_ATTEMPTS'[h])
                                   <= Len(LOGIN_ATTEMPTS[h])
                            /\ KeptTimes(LOGIN_ATTEMPTS'[h])
                                   \subseteq KeptTimes(LOGIN_ATTEMPTS[h])
                      /\ FailuresWithin(h) = {} /\ CorrectCredentials(d)
                            => last'.status = 200]_vars

\* alice has logged in after a lockout: five failed logins, made within one
\* window and so locking her, are all older than the window now.
C22_Witness ==
    /\ Answered("login", 200) /\ last.id = 2
    /\ Len(failed[Alice]) = MAX_LOGIN_ATTEMPTS
    /\ \A i \in 1..Len(failed[Alice]) :
          /\ failed[Alice][i].cleared
          /\ now - failed[Alice][i].at >= LOCK_TIME_MINUTES
          /\ failed[Alice][i].at - failed[Alice][1].at < LOCK_TIME_MINUTES

-----------------------------------------------------------------------------
(* C23 *)

\* C23: the rate-limit state is kept per handle: a login for handle X
\* leaves the recorded attempts of every other handle Y as they were, and a
\* login for Y is answered 429 only on account of Y's own failed logins,
\* whatever is recorded for X.
C23_PerHandle ==
    [][LoginStep =>
          \A d \in GuessInputs :
              login(d) =>
                  LET h == HandleOf(d.username)
                  IN  /\ \A y \in Handles \ {h} :
                            LOGIN_ATTEMPTS'[y] = LOGIN_ATTEMPTS[y]
                      /\ last'.status = 429 =>
                            Len(LOGIN_ATTEMPTS[h]) >= MAX_LOGIN_ATTEMPTS
                      /\ last'.status = 429 =>
                            Cardinality(StandingFailures(h))
                                >= MAX_LOGIN_ATTEMPTS]_vars

\* alice is locked by five failed logins; a login for bob made later was
\* answered 401, not 429, and is the only one recorded for him.
C23_Witness ==
    /\ Answered("login", 401)
    /\ Cardinality(StandingFailures(Alice)) = MAX_LOGIN_ATTEMPTS
    /\ Len(LOGIN_ATTEMPTS[Alice]) = MAX_LOGIN_ATTEMPTS
    /\ LOGIN_ATTEMPTS[Bob] = <<now>>
    /\ \A i \in 1..Len(failed[Alice]) : failed[Alice][i].at < now

-----------------------------------------------------------------------------
(* C24 *)

\* The operations that take a bearer token.
ProtectedOps ==
    {"get_bookings", "create_booking", "delete_booking", "get_conflicts",
     "get_user_conflicts", "resolve_conflict", "get_me"}

\* A token that is invalid or whose subject is no stored user.
Unauthenticated(token) ==
    token = BadToken \/ \A u \in users : u.id # token

\* The protected operation of this step is called with token.
CalledWith(token) ==
    CASE last'.op = "get_bookings" -> get_bookings(token)
      [] last'.op = "get_conflicts" -> get_conflicts(token)
      [] last'.op = "get_user_conflicts" -> get_user_conflicts(token)
      [] last'.op = "get_me" -> get_me(token)
      [] last'.op = "create_booking" ->
            \E booking_data \in BookingInputs(UtcSuffixes) :
                create_booking(token, booking_data)
      [] last'.op = "delete_booking" ->
            \E booking_id \in 1..nextBookingId :
                delete_booking(token, booking_id)
      [] last'.op = "resolve_conflict" ->
            \E conflict_id \in 1..nextConflictId :
                resolve_conflict(token, conflict_id)

\* C24: every protected operation (list, create and delete booking, list
\* and resolve conflict, current user) called with a token that is invalid,
\* or whose subject is no stored user, is answered 401 and changes no
\* booking, conflict record or user (stated as: a call that is not so
\* refused is no call with such a token).
C24_Unauthenticated ==
    [][/\ last'.op \in ProtectedOps
       /\ ~(last'.status = 401 /\ UNCHANGED <<users, bookings, conflicts>>)
       => \A token \in Tokens :
              Unauthenticated(token) => ~CalledWith(token)]_vars

\* A delete was answered 401 while bookings and an unresolved conflict
\* record are stored.
C24_Witness ==
    /\ Answered("delete_booking", 401)
    /\ last.user = 0
    /\ \E b \in bookings : b.id = last.id
    /\ \E c \in conflicts : ~c.resolved /\ Refers(c, last.id)

-----------------------------------------------------------------------------
(* C25 *)

\* C25: booking creation is all or nothing: in every committed state, the
\* booking of a create_booking request is stored only together with a
\* conflict record for every booking it overlapped at scan time that is
\* still stored; a booking is never visible without its conflict records.
C25_AllOrNothing ==
    \A w \in Workers :
        reqs[w].pc = "inserted" /\ reqs[w].booking_id \in BookingIds =>
            \A i \in 1..Len(reqs[w].found) :
                reqs[w].found[i].id \in BookingIds =>
                    \E c \in conflicts :
                        /\ c.booking1_id = reqs[w].found[i].id
                        /\ c.booking2_id = reqs[w].booking_id

-----------------------------------------------------------------------------
(* C26 *)

ConflictIds == {c.id : c \in conflicts}

\* C26: conflict records are never recomputed: a create_booking of B keeps
\* every stored record as it is, resolved flag included, and adds only
\* records with booking2_id = B.id whose booking1_id is a booking stored at
\* that moment that overlaps B; no other operation adds a record.
C26_NoRetroactiveConflicts ==
    [][LET new == {c \in conflicts' : c.id \notin ConflictIds}
       IN  IF last'.op = "create_booking" /\ last'.status = 200
           THEN /\ conflicts \subseteq conflicts'
                /\ \A c \in new :
                      /\ c.booking2_id = last'.id
                      /\ \E A \in bookings, B \in bookings' :
                            /\ A.id = c.booking1_id
                            /\ B.id = last'.id
                            /\ IntervalsOverlap(A, B)
           ELSE new = {}]_vars

\* A create has added a record for the new booking next to a record that
\* was resolved before and is still resolved.
C26_Witness ==
    /\ Answered("create_booking", 200)
    /\ \E c \in conflicts : c.booking2_id = last.id
    /\ \E c \in conflicts : c.booking2_id # last.id /\ c.resolved

-----------------------------------------------------------------------------
(* C27 *)

\* The events a handler pushes to connected listeners for an exchange.
\* create_booking returns the stored booking and delete_booking returns its
\* message without sending anything; the application registers no websocket
\* route and keeps no list of listeners.
Broadcast(exchange) == <<>>

\* C27: every committed create_booking emits booking_created and every
\* committed delete_booking emits booking_deleted to the connected
\* listeners.
C27_EventsEmitted ==
    /\ Answered("create_booking", 200) =>
           Broadcast(last) = <<"booking_created">>
    /\ Answered("delete_booking", 200) =>
           Broadcast(last) = <<"booking_deleted">>

-----------------------------------------------------------------------------
(* C28 *)

\* Which stored bookings the records name, and between which bounds.
OverlapsRecorded(rows) ==
    {[booking1_id |-> c.booking1_id, conflict_start |-> c.conflict_start,
      conflict_end |-> c.conflict_end] : c \in rows}

Labelled(booking_data, label) ==
    [booking_data EXCEPT !.user_timezone = label]

\* This step answers as the request data of user is answered on the tables
\* of its first state, and records the overlaps that request records.
SameOutcome(user, data) ==
    /\ CreateResponse(user, data).status = last'.status
    /\ OverlapsRecorded(conflicts' \ conflicts) =
           IF last'.status = 200
           THEN OverlapsRecorded(
                    ConflictRows(ScanConflicts(bookings, data),
                                 nextBookingId, user, data))
           ELSE {}

\* C28: the timezone label is display only: a create_booking request and
\* any request equal to it but for user_timezone, made by the same caller
\* with any stored timezone against the same tables, are answered with the
\* same status and record conflicts with the same stored bookings between
\* the same bounds.
C28_LabelDisplayOnly ==
    [][last'.op = "create_booking" /\ last'.user # 0 =>
          \A token \in Tokens :
              get_current_user(token).id = last'.user =>
                  \A booking_data \in BookingInputs(UtcSuffixes) :
                      (\E sent \in TimezoneLabels :
                          create_booking(token, Labelled(booking_data, sent)))
                      => \A label, timezone \in TimezoneLabels :
                             SameOutcome(
                                 UpdateTimezone(get_current_user(token),
                                                timezone),
                                 Labelled(booking_data, label))]_vars

\* A booking labelled with a name that is no timezone, made by a caller
\* whose stored timezone is another one, was accepted and has a conflict
\* record with a booking stored under a third label.
C28_Witness ==
    /\ Answered("create_booking", 200)
    /\ \E b \in bookings, u \in users, c \in conflicts, a \in bookings :
          /\ b.id = last.id /\ b.user_timezone = "Mars/Olympus"
          /\ u.id = last.user /\ u.timezone = "Asia/Kolkata"
          /\ c.booking2_id = b.id /\ c.booking1_id = a.id
          /\ a.user_timezone = "UTC"

-----------------------------------------------------------------------------
(* C29 *)

\* C29: with every request run to completion before the next starts, every
\* stored conflict record names two different bookings that are both still
\* stored, and booking1_id is the one that was stored already when the
\* booking of booking2_id was created (ids are issued in creation order).
C29_RecordsReferStored ==
    \A c \in conflicts :
        /\ c.booking1_id # c.booking2_id
        /\ c.booking1_id \in BookingIds
        /\ c.booking2_id \in BookingIds
        /\ c.booking1_id < c.booking2_id

\* A delete has removed a booking that had records as booking1_id and as
\* booking2_id, and a record of two other bookings is still stored.
C29_Witness ==
    /\ Answered("delete_booking", 200)
    /\ last.id = 2
    /\ BookingIds = {1, 3}
    /\ nextConflictId = 4
    /\ \E c \in conflicts : c.booking1_id = 1 /\ c.booking2_id = 3

-----------------------------------------------------------------------------
(* C30 *)

\* C30: under any interleaving of a create_booking with a delete_booking,
\* no stored conflict record refers to a deleted booking: a delete of A that
\* commits between the scan of a create of B and its conflict insertion
\* leaves no record with booking1_id = A.id.
C30_NoRecordOfDeleted ==
    \A w \in Workers :
        reqs[w].pc = "done" /\ reqs[w].status = 200 =>
            \A c \in conflicts :
                c.booking2_id = reqs[w].booking_id =>
                    c.booking1_id \in BookingIds

-----------------------------------------------------------------------------
(* C31 *)

\* The user_id of the stored booking with this id; 0 when none is stored.
OwnerOfBooking(booking_id) ==
    IF \E b \in bookings : b.id = booking_id
    THEN (CHOOSE b \in bookings : b.id = booking_id).user_id
    ELSE 0

\* Every record carries the owners of its two bookings, and a caller who is
\* no admin is listed an unresolved record exactly when one of its two
\* bookings is the caller's.
OwnersDenormalised ==
    /\ \A c \in conflicts :
          /\ c.user1_id = OwnerOfBooking(c.booking1_id)
          /\ c.user2_id = OwnerOfBooking(c.booking2_id)
    /\ \A current_user \in Callers :
          ~current_user.is_admin =>
              \A c \in conflicts :
                  ~c.resolved =>
                      (c \in ConflictsListed(current_user) <=>
                          current_user.id \in
                              {OwnerOfBooking(c.booking1_id),
                               OwnerOfBooking(c.booking2_id)})

\* C31: every conflict record is created with resolved = false, and in every
\* state its user1_id is the owner of the booking booking1_id names and its
\* user2_id the owner of the booking booking2_id names, so that a caller who
\* is no admin sees an unresolved record if and only if one of its two
\* bookings is the caller's.
C31_OwnersAndUnresolved ==
    [][/\ \A c \in conflicts' : c.id \notin ConflictIds => ~c.resolved
       /\ OwnersDenormalised']_vars

\* A booking of rutvik was just created over a booking of alice: the new
\* record is unresolved and names alice and rutvik, alice is listed it, and
\* she is not listed an unresolved record between two bookings of rutvik.
C31_Witness ==
    /\ Answered("create_booking", 200)
    /\ IsAdmin(last.user)
    /\ \E c \in conflicts, current_user \in Callers :
          /\ c.booking2_id = last.id /\ ~c.resolved
          /\ c.user2_id = last.user
          /\ c.user1_id = current_user.id /\ ~current_user.is_admin
          /\ c \in ConflictsListed(current_user)
          /\ \E d \in conflicts :
                ~d.resolved /\ d \notin ConflictsListed(current_user)

-----------------------------------------------------------------------------
(* C32 *)

\* C32: resolve_conflict checks no ownership: for every authenticated caller
\* and every stored record id it is answered 200 and leaves the record
\* resolved, whoever owns the two bookings; the only failure of an
\* authenticated caller is 404; and nothing changes but the resolved flag of
\* that record.
C32_ResolveByAnyone ==
    [][ResolveStep =>
          /\ last'.status \in {200, 404}
          /\ \A c \in conflicts :
                c.id = last'.id =>
                    /\ last'.status = 200
                    /\ conflicts' =
                           (conflicts \ {c}) \cup
                               {[c EXCEPT !.resolved = TRUE]}
          /\ UNCHANGED <<users, bookings, nextUserId, nextBookingId,
                         nextConflictId>>]_vars

\* alice, who is no admin, has resolved a record between two bookings of
\* rutvik.
C32_Witness ==
    /\ Answered("resolve_conflict", 200)
    /\ ~IsAdmin(last.user)
    /\ \E c \in conflicts :
          /\ c.id = last.id /\ c.resolved
          /\ last.user \notin {c.user1_id, c.user2_id}

-----------------------------------------------------------------------------
(* C33 *)

\* C33: the resolved flag only goes up: a record that is resolved is left
\* as it is by every create, delete, resolve, login and listing, it leaves
\* the table only through the cascade of a delete of one of its two
\* bookings, and no step adds another record for its pair of bookings.
C33_ResolvedStays ==
    [][\A c \in conflicts :
          c.resolved =>
              /\ \A d \in conflicts' : d.id = c.id => d = c
              /\ (\A d \in conflicts' : d.id # c.id) =>
                     /\ last'.op = "delete_booking" /\ last'.status = 200
                     /\ Refers(c, last'.id)
              /\ \A d \in conflicts' :
                     d.id \notin ConflictIds =>
                         {d.booking1_id, d.booking2_id} #
                             {c.booking1_id, c.booking2_id}]_vars

\* After a login, the record of bookings 1 and 2 is resolved, next to an
\* unresolved record that a later create added for booking 3.
C33_Witness ==
    /\ Answered("login", 200)
    /\ \E c \in conflicts, d \in conflicts :
          /\ c.resolved /\ c.booking1_id = 1 /\ c.booking2_id = 2
          /\ ~d.resolved /\ d.booking2_id = 3

-----------------------------------------------------------------------------
(* C34 *)

\* C34: the scan of create_booking takes the bookings of every owner: a new
\* booking that overlaps a stored booking of the caller gets a conflict
\* record with it as well, whose user1_id and user2_id are both the caller.
C34_OwnBookingsConflict ==
    [][CreateStep /\ last'.status = 200 =>
          \A A \in bookings, B \in bookings' :
              (/\ B.id = last'.id
               /\ A.user_id = last'.user
               /\ IntervalsOverlap(A, B)) =>
                  \E c \in conflicts' :
                      /\ c.id \notin ConflictIds
                      /\ c.booking1_id = A.id /\ c.booking2_id = B.id
                      /\ c.user1_id = last'.user
                      /\ c.user2_id = last'.user]_vars

\* alice, who is no admin, has created a booking over an earlier booking of
\* hers: the one record of the new booking names her twice.
C34_Witness ==
    /\ Answered("create_booking", 200)
    /\ ~IsAdmin(last.user)
    /\ \E c \in conflicts :
          /\ c.booking2_id = last.id
          /\ c.user1_id = last.user /\ c.user2_id = last.user
          /\ OwnerOfBooking(c.booking1_id) = last.user
    /\ Cardinality({c \in conflicts : c.booking2_id = last.id}) = 1
    /\ Cardinality(bookings) = 2

-----------------------------------------------------------------------------
(* C35 *)

\* C35: after any sequence of create_booking requests every stored booking
\* has a title that is not blank and is between 1 and 255 characters long.
C35_StoredTitlesBounded ==
    \A b \in bookings :
        /\ Strip(b.title) # <<>>
        /\ Len(b.title) >= 1
        /\ Len(b.title) <= MaxTitle

-----------------------------------------------------------------------------
(* C36 *)

\* C36: every stored booking belongs to the authenticated user who created
\* it: create_booking takes user_id and user_name from the caller the token
\* resolves to, whatever the request body names, and no operation changes
\* the owner of a stored booking.
C36_OwnedByCreator ==
    [][/\ \A B \in bookings' :
             B.id \notin BookingIds =>
                 /\ last'.op = "create_booking" /\ last'.id = B.id
                 /\ B.user_id = last'.user
                 /\ \E u \in users :
                       u.id = last'.user /\ u.username = B.user_name
       /\ \A b \in bookings, B \in bookings' :
             b.id = B.id =>
                 B.user_id = b.user_id /\ B.user_name = b.user_name]_vars

\* alice, who is no admin, has created a booking next to one of rutvik:
\* hers is stored under her id and handle, his under his.
C36_Witness ==
    /\ Answered("create_booking", 200)
    /\ ~IsAdmin(last.user)
    /\ \E b \in bookings :
          /\ b.id = last.id /\ b.user_id = last.user /\ b.user_name = Alice
    /\ \E b \in bookings : b.user_id # last.user /\ b.user_name = Rutvik

-----------------------------------------------------------------------------
(* C37 *)

\* C37: a login that succeeds clears the failed attempts recorded for its
\* handle, so that a later login for the handle is answered 429 only when
\* MAX_LOGIN_ATTEMPTS failed logins made after that success lie in the
\* window, however many failures (fewer than MAX_LOGIN_ATTEMPTS) came
\* before it.
C37_SuccessClears ==
    [][LoginStep =>
          \A d \in GuessInputs :
              login(d) =>
                  LET h == HandleOf(d.username)
                  IN  /\ last'.status = 200 =>
                            /\ LOGIN_ATTEMPTS'[h] = <<>>
                            /\ StandingFailures(h)' = {}
                      /\ last'.status = 429 =>
                            /\ Len(LOGIN_ATTEMPTS[h]) >= MAX_LOGIN_ATTEMPTS
                            /\ \A i \in 1..Len(failed[h]) :
                                  ~failed[h][i].cleared]_vars

\* alice failed four times, logged in, and has just failed once more: five
\* failed logins lie in the window, one of them after the success, one time
\* is recorded, and her next login with the correct password is let in.
C37_Witness ==
    /\ Answered("login", 401)
    /\ Len(failed[Alice]) = MAX_LOGIN_ATTEMPTS
    /\ Cardinality(FailuresWithin(Alice)) = MAX_LOGIN_ATTEMPTS
    /\ Cardinality(StandingFailures(Alice)) = 1
    /\ Len(LOGIN_ATTEMPTS[Alice]) = 1
    /\ \A d \in GuessInputs :
          HandleOf(d.username) = Alice /\ CorrectCredentials(d) =>
              LoginOutcome(users, d).response = Ok

-----------------------------------------------------------------------------
(* C38 *)

\* C38: under any interleaving of register requests for one normalised
\* handle, also when two of them pass the existence check before either
\* inserts, at most one user with the handle is stored and at most one of
\* the requests is answered 200.
C38_OneRowPerHandle ==
    \A username \in Handles :
        /\ Cardinality({u \in users : u.username = username}) <= 1
        /\ Cardinality({w \in Workers :
                           /\ reqs[w].pc = "done"
                           /\ reqs[w].username = username
                           /\ reqs[w].status = 200}) <= 1

\* Two registrations of rutvik had both passed the existence check: one was
\* answered 200, the other 500, and one row is stored.
C38_Witness ==
    /\ \A w \in Workers : reqs[w].pc = "done" /\ reqs[w].username = Rutvik
    /\ {reqs[w].status : w \in Workers} = {200, 500}
    /\ Cardinality({u \in users : u.username = Rutvik}) = 1
    /\ nextUserId = 2

-----------------------------------------------------------------------------
(* C39 *)

\* C39: after any sequence of register and update_user_timezone requests
\* the timezone of every stored user is one of the labels GET /timezones
\* returns.
C39_StoredTimezonesValid ==
    \A u \in users : u.timezone \in get_timezones

=============================================================================
